---- MODULE Spec2Model ----
(***************************************************************************)
(* Model of the iDealLED integration's BLE session managers and retry      *)
(* wrapper:                                                                *)
(*   - retry_bluetooth_connection_error   (idealled.py 98-162)             *)
(*   - IDEALLEDInstance                   (idealled.py 165-636)            *)
(*   - iDealLed                           (iDealLed.py 37-282)             *)
(* asyncio is cooperative: a coroutine runs without interruption up to the *)
(* next await that really suspends.  Every action below is one such run.   *)
(***************************************************************************)
EXTENDS Integers, Sequences, FiniteSets, TLC

None == "None"

(***************************************************************************)
(* Program constants                                                       *)
(***************************************************************************)
DEFAULT_ATTEMPTS == 3

\* BLEAK_BACKOFF_TIME = 0.25 s, kept in milliseconds
BLEAK_BACKOFF_TIME == 250

\* Exception classes that reach the wrapper.  BleakNotFoundError and
\* BleakDBusError are subclasses of BleakError; "BleakError" stands for every
\* other BleakError.  BLEAK_EXCEPTIONS is bleak_retry_connector's
\* BLEAK_RETRY_EXCEPTIONS (imported under that name at idealled.py 11-12).
\* "CancelledError" and "Exception" stand for what the wrapper has no except
\* clause for.
NotFound == "BleakNotFoundError"
DBus == "BleakDBusError"
Bleak == "BleakError"
Other == "Exception"
Cancelled == "CancelledError"

RETRY_BACKOFF_EXCEPTIONS == {DBus}

BLEAK_EXCEPTIONS ==
    {NotFound, DBus, Bleak, "AttributeError", "EOFError", "BrokenPipeError", "TimeoutError"}

ErrorClasses == BLEAK_EXCEPTIONS \cup {Other, Cancelled}

VARIABLES
    rt_pc,        \* where the wrapper is: "loop", "func", "sleep", "returned", "raised"
    rt_attempt,   \* the loop variable `attempt`
    rt_calls,     \* outcome of every call of the wrapped function, in order
    rt_sleeps,    \* every asyncio.sleep made: <<attempt it followed, milliseconds>>
    rt_outcome    \* what the wrapper handed to its caller

rvars == <<rt_pc, rt_attempt, rt_calls, rt_sleeps, rt_outcome>>

(***************************************************************************)
(* Bounds of the session model                                             *)
(***************************************************************************)
\* concurrent callers of the public API
NTasks == 2

\* background disconnect tasks (asyncio.create_task) that may be alive at once
NBg == 1

\* client objects (links) that may be referenced or up at once
MaxLinks == 2

\* timer handles that may be pending in the event loop at once
MaxTimers == 2

\* calls the callers make in one run
MaxCalls == 2

\* transport errors injected in one run
MaxFaults == 1

\* links the peer closes in one run
MaxDrops == 1

\* `None` for the integer-valued fields (client, timer handle, characteristic)
Nil == 0

Tasks == 1..NTasks
BgTasks == (NTasks + 1)..(NTasks + NBg)
Procs == Tasks \cup BgTasks
LinkIds == 1..MaxLinks
TimerIds == 1..MaxTimers

IDEALLEDInstance == "IDEALLEDInstance"
iDealLed == "iDealLed"

EFFECT_01 == "Effect 01"
EFFECT_11 == "Effect 11"
EFFECT_MICROPHONE == "Microphone"

\* EFFECT_MAP: the identifier of each effect name, a function on the names
EFFECT_MAP ==
    (EFFECT_01 :> 1) @@ ("Effect 02" :> 2) @@ ("Effect 03" :> 3) @@ ("Effect 04" :> 4)
    @@ ("Effect 05" :> 5) @@ ("Effect 06" :> 6) @@ ("Effect 07" :> 7) @@ ("Effect 08" :> 8)
    @@ ("Effect 09" :> 9) @@ ("Effect 10" :> 10) @@ (EFFECT_11 :> 11)
    @@ (EFFECT_MICROPHONE :> 12)

\* EFFECT_LIST = sorted(EFFECT_MAP): the names, used for membership only
EFFECT_LIST == DOMAIN EFFECT_MAP

\* the three characteristics a catalogue may hold; a catalogue is
\* [of |-> the link it was discovered on, has |-> the characteristics in it]
AllChars == {"read", "write", "colour"}

NoCat == [of |-> Nil, has |-> {}]

\* the peripherals of the session specifications, as <<the characteristics
\* the device exposes, the ones loaded when establish_connection returns>>:
\* the device exposes all three and all three are loaded
FullDevice == {<<AllChars, AllChars>>}

\* transport errors injected into the session model
FaultClasses == {NotFound, DBus, Bleak}

VARIABLES
    cls,                  \* the class that was constructed
    _delay,               \* IDEALLEDInstance._delay / DISCONNECT_DELAY
    _client,              \* the stored client object (a link id) or Nil
    _connect_lock,        \* asyncio.Lock: FIFO of processes, the head holds it
    _procedure_lock,      \* iDealLed._procedure_lock, likewise
    _disconnect_timer,    \* the stored TimerHandle or Nil
    _expected_disconnect,
    _disconnect_reason,   \* iDealLed._disconnect_reason
    _cached_services,     \* the cached catalogue, NoCat for None
    _read_uuid,           \* Nil or the link whose catalogue the handle came from
    _write_uuid,
    _write_colour_uuid,
    _is_on,               \* "None", "True", "False"
    _usingmic,
    _effect,              \* "None" or an effect name
    _effect_speed,
    _brightness,
    _rgb_color,           \* <<r, g, b>>
    _effect_colors,       \* the palette: seven <<r, g, b>>
    connected,            \* links that are up (client.is_connected)
    scheduled,            \* timer handles pending in the event loop
    pc,                   \* per process: the await it is suspended at
    op,                   \* per process: the operation it runs
    arg,                  \* per process: the operation's argument
    stage,                \* per process: where the body resumes after the await
    attempt,              \* per process: the retry wrapper's loop variable
    lclient,              \* per process: the local `client` / the client written to;
                          \* of a created iDealLed task, the client stored when it was created
    lchar,                \* per process: the characteristic handed to the transport
    est,                  \* establish_connection calls since the session last
                          \* left Connected or a connect attempt failed (0, 1, many)
    cause,                \* why the session last left Connected: "init", "peer",
                          \* "idle", "user", "error", "unexpected"
    cb_log,               \* the branch the last disconnect callback took
    calls,                \* calls made so far
    faults,               \* transport errors injected so far
    drops,                \* links closed by the peer so far
    wire,                 \* the write_gatt_char calls of the command under way
    entry,                \* the facade fields as the command under way found them
    last,                 \* the command under way or last run, how it ended, and the
                          \* error and attempt it was raised with
    packet,               \* the plaintext packet handed to _write, <<>> before
    ciphered,             \* the bytes _write passed to write_gatt_char
    cleared,              \* the bytes _notification_handler decrypted
    device,               \* the characteristics the peripheral exposes
    loaded,               \* those in client.services when the client is handed over
    delivered,            \* the last cancellation of _execute: where, and what the caller got
    received              \* the values of the last speed and brightness packets
                          \* write_gatt_char delivered; the defaults before any

facade == <<_is_on, _usingmic, _effect, _effect_speed, _brightness, _rgb_color, _effect_colors>>
endpoints == <<_cached_services, _read_uuid, _write_uuid, _write_colour_uuid>>
timer == <<_disconnect_timer, scheduled, _expected_disconnect>>
procs == <<pc, op, arg, stage, attempt, lclient, lchar>>
ghost == <<est, cause>>
env == <<calls, faults, drops>>
codec == <<packet, ciphered, cleared>>
peripheral == <<device, loaded>>
obs == <<wire, entry, last, codec, peripheral, delivered, received>>

\* the characteristic sets client.services may hold on a new client
Discoverable == {loaded}
svars == <<cls, _delay, _client, _connect_lock, _procedure_lock, _disconnect_reason,
           facade, endpoints, timer, procs, connected, ghost, cb_log, env, obs>>
vars == <<svars, rvars>>

(***************************************************************************)
(* retry_bluetooth_connection_error: the except clauses, in source order.  *)
(* "raise" re-raises, "sleep" backs off and goes round the loop, "next"    *)
(* goes round the loop at once.                                            *)
(***************************************************************************)
max_attempts == DEFAULT_ATTEMPTS - 1

ExceptClauseNoNotFound(att, err) ==
    IF err \in BLEAK_EXCEPTIONS
    THEN IF att >= max_attempts THEN "raise"
         ELSE IF err \in RETRY_BACKOFF_EXCEPTIONS THEN "sleep" ELSE "next"
    ELSE "raise"

ExceptClauseOffByOne(att, err) ==
    IF err = NotFound THEN "raise"
    ELSE IF err \in RETRY_BACKOFF_EXCEPTIONS
    THEN IF att > max_attempts THEN "raise" ELSE "sleep"
    ELSE IF err \in BLEAK_EXCEPTIONS
    THEN IF att > max_attempts THEN "raise" ELSE "next"
    ELSE "raise"

ExceptClauseSleepAlways(att, err) ==
    IF err = NotFound THEN "raise"
    ELSE IF err \in BLEAK_EXCEPTIONS
    THEN IF att >= max_attempts THEN "raise" ELSE "sleep"
    ELSE "raise"

ExceptClause(att, err) ==
    IF err = NotFound THEN "raise"
    ELSE IF err \in RETRY_BACKOFF_EXCEPTIONS
    THEN IF att >= max_attempts THEN "raise" ELSE "sleep"
    ELSE IF err \in BLEAK_EXCEPTIONS
    THEN IF att >= max_attempts THEN "raise" ELSE "next"
    ELSE "raise"

\* `for attempt in range(attempts)`: the loop body runs while attempt < attempts
LoopRuns(att) == att < DEFAULT_ATTEMPTS

RetryInit ==
    /\ rt_pc = "loop"
    /\ rt_attempt = 0
    /\ rt_calls = <<>>
    /\ rt_sleeps = <<>>
    /\ rt_outcome = <<"pending">>

\* top of the loop: call the wrapped function, or leave the loop and fall off
\* the end of the wrapper (an implicit `return None`)
RetryLoop ==
    /\ UNCHANGED svars
    /\ rt_pc = "loop"
    /\ IF LoopRuns(rt_attempt)
       THEN /\ rt_pc' = "func"
            /\ UNCHANGED rt_outcome
       ELSE /\ rt_pc' = "returned"
            /\ rt_outcome' = <<"fell_through">>
    /\ UNCHANGED <<rt_attempt, rt_calls, rt_sleeps>>

\* `return await func(...)`: the call returns its result
RetryFuncReturns ==
    /\ UNCHANGED svars
    /\ rt_pc = "func"
    /\ rt_calls' = Append(rt_calls, "ok")
    /\ rt_pc' = "returned"
    /\ rt_outcome' = <<"result", rt_attempt>>
    /\ UNCHANGED <<rt_attempt, rt_sleeps>>

\* the call raises an exception of class err
RetryFuncRaises(err) ==
    /\ UNCHANGED svars
    /\ rt_pc = "func"
    /\ rt_calls' = Append(rt_calls, err)
    /\ LET d == ExceptClause(rt_attempt, err) IN
       CASE d = "raise" ->
               /\ rt_pc' = "raised"
               /\ rt_outcome' = <<"error", err, rt_attempt>>
               /\ UNCHANGED <<rt_attempt, rt_sleeps>>
         [] d = "sleep" ->
               /\ rt_pc' = "sleep"
               /\ rt_sleeps' = Append(rt_sleeps, <<rt_attempt, BLEAK_BACKOFF_TIME>>)
               /\ UNCHANGED <<rt_attempt, rt_outcome>>
         [] OTHER ->
               /\ rt_pc' = "loop"
               /\ rt_attempt' = rt_attempt + 1
               /\ UNCHANGED <<rt_sleeps, rt_outcome>>

\* asyncio.sleep(BLEAK_BACKOFF_TIME) is over: next iteration
RetrySleepDone ==
    /\ UNCHANGED svars
    /\ rt_pc = "sleep"
    /\ rt_pc' = "loop"
    /\ rt_attempt' = rt_attempt + 1
    /\ UNCHANGED <<rt_calls, rt_sleeps, rt_outcome>>

RetryNext ==
    \/ RetryLoop
    \/ RetryFuncReturns
    \/ \E err \in ErrorClasses : RetryFuncRaises(err)
    \/ RetrySleepDone


(***************************************************************************)
(* The cipher of _write and _notification_handler: AES-128 on one 16-byte  *)
(* block (ECB mode encrypts each block on its own), as FIPS 197 defines it.  *)
(***************************************************************************)
\* SECRET_ENCRYPTION_KEY: the sixteen key bytes
SECRET_ENCRYPTION_KEY ==
    <<52, 82, 42, 91, 122, 110, 73, 44, 8, 9, 10, 157, 141, 42, 35, 248>>

\* exclusive or of two 4-bit values, entry [a + 1][b + 1]
XorTable ==
    <<<<0, 1, 2, 3, 4, 5, 6, 7, 8, 9, 10, 11, 12, 13, 14, 15>>,
      <<1, 0, 3, 2, 5, 4, 7, 6, 9, 8, 11, 10, 13, 12, 15, 14>>,
      <<2, 3, 0, 1, 6, 7, 4, 5, 10, 11, 8, 9, 14, 15, 12, 13>>,
      <<3, 2, 1, 0, 7, 6, 5, 4, 11, 10, 9, 8, 15, 14, 13, 12>>,
      <<4, 5, 6, 7, 0, 1, 2, 3, 12, 13, 14, 15, 8, 9, 10, 11>>,
      <<5, 4, 7, 6, 1, 0, 3, 2, 13, 12, 15, 14, 9, 8, 11, 10>>,
      <<6, 7, 4, 5, 2, 3, 0, 1, 14, 15, 12, 13, 10, 11, 8, 9>>,
      <<7, 6, 5, 4, 3, 2, 1, 0, 15, 14, 13, 12, 11, 10, 9, 8>>,
      <<8, 9, 10, 11, 12, 13, 14, 15, 0, 1, 2, 3, 4, 5, 6, 7>>,
      <<9, 8, 11, 10, 13, 12, 15, 14, 1, 0, 3, 2, 5, 4, 7, 6>>,
      <<10, 11, 8, 9, 14, 15, 12, 13, 2, 3, 0, 1, 6, 7, 4, 5>>,
      <<11, 10, 9, 8, 15, 14, 13, 12, 3, 2, 1, 0, 7, 6, 5, 4>>,
      <<12, 13, 14, 15, 8, 9, 10, 11, 4, 5, 6, 7, 0, 1, 2, 3>>,
      <<13, 12, 15, 14, 9, 8, 11, 10, 5, 4, 7, 6, 1, 0, 3, 2>>,
      <<14, 15, 12, 13, 10, 11, 8, 9, 6, 7, 4, 5, 2, 3, 0, 1>>,
      <<15, 14, 13, 12, 11, 10, 9, 8, 7, 6, 5, 4, 3, 2, 1, 0>>>>

\* exclusive or of two bytes
Xor(a, b) ==
    16 * XorTable[(a \div 16) + 1][(b \div 16) + 1] + XorTable[(a % 16) + 1][(b % 16) + 1]

\* multiplication by x in GF(2^8) modulo x^8 + x^4 + x^3 + x + 1
xtime(a) == IF a >= 128 THEN Xor((2 * a) % 256, 27) ELSE 2 * a

\* multiplication in GF(2^8)
RECURSIVE GMul(_, _)
GMul(a, b) ==
    IF b = 0 THEN 0
    ELSE Xor(IF b % 2 = 1 THEN a ELSE 0, GMul(xtime(a), b \div 2))

\* the AES substitution table and its inverse, entry x + 1 for byte x
SBox ==
    <<99, 124, 119, 123, 242, 107, 111, 197, 48, 1, 103, 43, 254, 215, 171,
      118, 202, 130, 201, 125, 250, 89, 71, 240, 173, 212, 162, 175, 156, 164,
      114, 192, 183, 253, 147, 38, 54, 63, 247, 204, 52, 165, 229, 241, 113,
      216, 49, 21, 4, 199, 35, 195, 24, 150, 5, 154, 7, 18, 128, 226, 235, 39,
      178, 117, 9, 131, 44, 26, 27, 110, 90, 160, 82, 59, 214, 179, 41, 227,
      47, 132, 83, 209, 0, 237, 32, 252, 177, 91, 106, 203, 190, 57, 74, 76,
      88, 207, 208, 239, 170, 251, 67, 77, 51, 133, 69, 249, 2, 127, 80, 60,
      159, 168, 81, 163, 64, 143, 146, 157, 56, 245, 188, 182, 218, 33, 16,
      255, 243, 210, 205, 12, 19, 236, 95, 151, 68, 23, 196, 167, 126, 61,
      100, 93, 25, 115, 96, 129, 79, 220, 34, 42, 144, 136, 70, 238, 184, 20,
      222, 94, 11, 219, 224, 50, 58, 10, 73, 6, 36, 92, 194, 211, 172, 98,
      145, 149, 228, 121, 231, 200, 55, 109, 141, 213, 78, 169, 108, 86, 244,
      234, 101, 122, 174, 8, 186, 120, 37, 46, 28, 166, 180, 198, 232, 221,
      116, 31, 75, 189, 139, 138, 112, 62, 181, 102, 72, 3, 246, 14, 97, 53,
      87, 185, 134, 193, 29, 158, 225, 248, 152, 17, 105, 217, 142, 148, 155,
      30, 135, 233, 206, 85, 40, 223, 140, 161, 137, 13, 191, 230, 66, 104,
      65, 153, 45, 15, 176, 84, 187, 22>>

InvSBox ==
    <<82, 9, 106, 213, 48, 54, 165, 56, 191, 64, 163, 158, 129, 243, 215, 251,
      124, 227, 57, 130, 155, 47, 255, 135, 52, 142, 67, 68, 196, 222, 233,
      203, 84, 123, 148, 50, 166, 194, 35, 61, 238, 76, 149, 11, 66, 250, 195,
      78, 8, 46, 161, 102, 40, 217, 36, 178, 118, 91, 162, 73, 109, 139, 209,
      37, 114, 248, 246, 100, 134, 104, 152, 22, 212, 164, 92, 204, 93, 101,
      182, 146, 108, 112, 72, 80, 253, 237, 185, 218, 94, 21, 70, 87, 167,
      141, 157, 132, 144, 216, 171, 0, 140, 188, 211, 10, 247, 228, 88, 5,
      184, 179, 69, 6, 208, 44, 30, 143, 202, 63, 15, 2, 193, 175, 189, 3, 1,
      19, 138, 107, 58, 145, 17, 65, 79, 103, 220, 234, 151, 242, 207, 206,
      240, 180, 230, 115, 150, 172, 116, 34, 231, 173, 53, 133, 226, 249, 55,
      232, 28, 117, 223, 110, 71, 241, 26, 113, 29, 41, 197, 137, 111, 183,
      98, 14, 170, 24, 190, 27, 252, 86, 62, 75, 198, 210, 121, 32, 154, 219,
      192, 254, 120, 205, 90, 244, 31, 221, 168, 51, 136, 7, 199, 49, 177, 18,
      16, 89, 39, 128, 236, 95, 96, 81, 127, 169, 25, 181, 74, 13, 45, 229,
      122, 159, 147, 201, 156, 239, 160, 224, 59, 77, 174, 42, 245, 176, 200,
      235, 187, 60, 131, 83, 153, 97, 23, 43, 4, 126, 186, 119, 214, 38, 225,
      105, 20, 99, 85, 33, 12, 125>>

\* a 16-byte block, element by element
Block(f(_)) ==
    <<f(1), f(2), f(3), f(4), f(5), f(6), f(7), f(8),
      f(9), f(10), f(11), f(12), f(13), f(14), f(15), f(16)>>

XorBlock(s, k) == Block(LAMBDA i : Xor(s[i], k[i]))

\* word i (from 0) of the key schedule is bytes 4i+1..4i+4 of the sequence
\* F applied to the value of v
Then(v, F(_)) == CHOOSE r \in {F(x) : x \in {v}} : TRUE

RECURSIVE ExpandKey(_, _, _)
ExpandKey(w, i, rc) ==
    IF i = 44 THEN w
    ELSE LET prev == <<w[4 * i - 3], w[4 * i - 2], w[4 * i - 1], w[4 * i]>>
             t == IF i % 4 = 0
                  THEN <<Xor(SBox[prev[2] + 1], rc), SBox[prev[3] + 1],
                         SBox[prev[4] + 1], SBox[prev[1] + 1]>>
                  ELSE prev
             new == <<Xor(w[4 * i - 15], t[1]), Xor(w[4 * i - 14], t[2]),
                      Xor(w[4 * i - 13], t[3]), Xor(w[4 * i - 12], t[4])>>
         IN Then(w \o new,
                 LAMBDA v : ExpandKey(v, i + 1, IF i % 4 = 0 THEN xtime(rc) ELSE rc))

\* the eleven round keys, one after the other
RoundKeys(key) == ExpandKey(key, 4, 1)

RoundKey(w, r) == Block(LAMBDA i : w[16 * r + i])

SubBytes(s) == Block(LAMBDA i : SBox[s[i] + 1])
InvSubBytes(s) == Block(LAMBDA i : InvSBox[s[i] + 1])

\* byte i (from 0) of the state sits in row i % 4, column i \div 4
ShiftRows(s) == Block(LAMBDA i : s[(((i - 1) + 4 * ((i - 1) % 4)) % 16) + 1])
InvShiftRows(s) == Block(LAMBDA i : s[(((i - 1) + 12 * ((i - 1) % 4)) % 16) + 1])

\* each column of the state multiplied by the circulant matrix of row m
MixWith(s, m) ==
    Block(LAMBDA i :
        LET c == 4 * ((i - 1) \div 4)
            r == (i - 1) % 4
        IN Xor(Xor(GMul(s[c + 1], m[((4 - r) % 4) + 1]),
                   GMul(s[c + 2], m[((5 - r) % 4) + 1])),
               Xor(GMul(s[c + 3], m[((6 - r) % 4) + 1]),
                   GMul(s[c + 4], m[((7 - r) % 4) + 1]))))

MixColumns(s) == MixWith(s, <<2, 3, 1, 1>>)
InvMixColumns(s) == MixWith(s, <<14, 11, 13, 9>>)

RECURSIVE EncRounds(_, _, _)
EncRounds(s, w, r) ==
    IF r = 10
    THEN XorBlock(ShiftRows(SubBytes(s)), RoundKey(w, 10))
    ELSE Then(XorBlock(MixColumns(ShiftRows(SubBytes(s))), RoundKey(w, r)),
              LAMBDA n : EncRounds(n, w, r + 1))

\* AES.new(key, AES.MODE_ECB).encrypt(data) for one 16-byte block
AesEncrypt(key, data) ==
    Then(RoundKeys(key),
         LAMBDA w : Then(XorBlock(data, RoundKey(w, 0)), LAMBDA s : EncRounds(s, w, 1)))

RECURSIVE DecRounds(_, _, _)
DecRounds(s, w, r) ==
    IF r = 0
    THEN XorBlock(InvSubBytes(InvShiftRows(s)), RoundKey(w, 0))
    ELSE Then(InvMixColumns(XorBlock(InvSubBytes(InvShiftRows(s)), RoundKey(w, r))),
              LAMBDA n : DecRounds(n, w, r - 1))

\* AES.new(key, AES.MODE_ECB).decrypt(data) for one 16-byte block
AesDecrypt(key, data) ==
    Then(RoundKeys(key),
         LAMBDA w : Then(XorBlock(data, RoundKey(w, 10)), LAMBDA s : DecRounds(s, w, 9)))

\* _write, lines 234-236: what is handed to write_gatt_char
ciphered_data(data) == AesEncrypt(SECRET_ENCRYPTION_KEY, data)

\* a handler that runs the cipher forwards again
clear_dataEncrypts(data) == AesEncrypt(SECRET_ENCRYPTION_KEY, data)

\* _notification_handler, lines 264-265
clear_data(data) == AesDecrypt(SECRET_ENCRYPTION_KEY, data)

(***************************************************************************)
(* Helpers shared by both classes                                          *)
(***************************************************************************)
\* `self._client and self._client.is_connected`
Connected == _client # Nil /\ _client \in connected

\* the smallest identifier of Ids that is not in Used
Fresh(Ids, Used) == CHOOSE i \in Ids \ Used : \A j \in Ids \ Used : i <= j

\* client objects something still refers to, or whose link is up
LinksInUse ==
    (connected \cup {_client, _cached_services.of, _read_uuid, _write_uuid, _write_colour_uuid}
        \cup {lclient[p] : p \in Procs} \cup {lchar[p] : p \in Procs}) \ {Nil}

\* establish_connection was called once more (0, 1, many)
Bump(e) == IF e < 2 THEN e + 1 ELSE 2

\* a coroutine suspends at an await
Suspend(t, where, o, a, k, att, lc, ch) ==
    /\ pc' = [pc EXCEPT ![t] = where]
    /\ op' = [op EXCEPT ![t] = o]
    /\ arg' = [arg EXCEPT ![t] = a]
    /\ stage' = [stage EXCEPT ![t] = k]
    /\ attempt' = [attempt EXCEPT ![t] = att]
    /\ lclient' = [lclient EXCEPT ![t] = lc]
    /\ lchar' = [lchar EXCEPT ![t] = ch]

\* an operation returns or raises to its caller: the coroutine is over
Finish(t) ==
    /\ pc' = [pc EXCEPT ![t] = "idle"]
    /\ op' = [op EXCEPT ![t] = None]
    /\ arg' = [arg EXCEPT ![t] = None]
    /\ stage' = [stage EXCEPT ![t] = 0]
    /\ attempt' = [attempt EXCEPT ![t] = 0]
    /\ lclient' = [lclient EXCEPT ![t] = Nil]
    /\ lchar' = [lchar EXCEPT ![t] = Nil]

(***************************************************************************)
(* IDEALLEDInstance: the bodies of the commands, cut at their awaits.      *)
(* A body is resumed at point k (0: the call) with the facade fields F and *)
(* runs to its next _write ("write"), to update()'s _ensure_connected      *)
(* ("ensure") or to its end ("return").                                    *)
(***************************************************************************)
Facade ==
    [is_on |-> _is_on, usingmic |-> _usingmic, effect |-> _effect,
     speed |-> _effect_speed, brightness |-> _brightness,
     rgb |-> _rgb_color, colors |-> _effect_colors]

SetFacade(F) ==
    /\ _is_on' = F.is_on
    /\ _usingmic' = F.usingmic
    /\ _effect' = F.effect
    /\ _effect_speed' = F.speed
    /\ _brightness' = F.brightness
    /\ _rgb_color' = F.rgb
    /\ _effect_colors' = F.colors

Plan(F, nxt, k, o, a) == [F |-> F, nxt |-> nxt, stage |-> k, op |-> o, arg |-> a]

Min(a, b) == IF a <= b THEN a ELSE b

\* n zero bytes
Zeros(n) == [i \in 1..n |-> 0]

_startmiccommand == <<6, 77, 73, 67, 1>> \o Zeros(11)
_stopmiccommand == <<6, 77, 73, 67, 0>> \o Zeros(11)

\* `int(brightness * 100 / 255)`
brightness_percent(brightness) == (brightness * 100) \div 255

\* `int(int(c * brightness_pct / 100) >> 1)`
Scale(c, pct) == ((c * pct) \div 100) \div 2

\* a palette entry put on the wire as red, green, blue
GrbAsRgb(colour, pct) == <<Scale(colour[1], pct), Scale(colour[2], pct), Scale(colour[3], pct)>>

\* a palette entry on the wire: green, red, blue
Grb(colour, pct) == <<Scale(colour[2], pct), Scale(colour[1], pct), Scale(colour[3], pct)>>

\* a write the body hands to _write: the command characteristic, encrypted
Command(data) == [char |-> "write", cipher |-> "AES-ECB", data |-> data]

turn_on(k, F) ==
    CASE k = 0 -> Plan(F, "write", 1, "turn_on", None)
      [] k = 1 -> LET G == [F EXCEPT !.is_on = "True"] IN
                  IF F.usingmic THEN Plan(G, "write", 2, "turn_on", None)
                  ELSE Plan(G, "return", 0, "turn_on", None)
      [] OTHER -> Plan(F, "return", 0, "turn_on", None)

\* the write turn_on is suspended at when it resumes at k
turn_on_write(k) ==
    IF k = 1 THEN Command(<<6, 76, 69, 68, 79, 78>> \o Zeros(10))
    ELSE Command(_startmiccommand)

turn_off(k, F) ==
    CASE k = 0 -> IF F.usingmic THEN Plan(F, "write", 1, "turn_off", None)
                  ELSE Plan(F, "write", 2, "turn_off", None)
      [] k = 1 -> Plan(F, "write", 2, "turn_off", None)
      [] OTHER -> Plan([F EXCEPT !.is_on = "False"], "return", 0, "turn_off", None)

turn_off_write(k) ==
    IF k = 1 THEN Command(_stopmiccommand)
    ELSE Command(<<6, 76, 69, 68, 79, 70, 70>> \o Zeros(9))

\* a = [rgb |-> <<r, g, b>>, brightness |-> 0..255], or without the brightness
\* field for the default `brightness=None`
set_rgb_color(a, k, F) ==
    CASE k = 0 -> IF F.usingmic
                  THEN Plan([F EXCEPT !.usingmic = FALSE], "write", 1, "set_rgb_color", a)
                  ELSE Plan([F EXCEPT !.rgb = a.rgb, !.effect = None],
                            "write", 2, "set_rgb_color", a)
      [] k = 1 -> Plan([F EXCEPT !.rgb = a.rgb, !.effect = None],
                       "write", 2, "set_rgb_color", a)
      [] OTHER -> Plan(F, "return", 0, "set_rgb_color", a)

\* the colour packet with the channels in the order red, green, blue
set_rgb_color_writeRgb(a, k, F) ==
    IF k = 1 THEN Command(_stopmiccommand)
    ELSE LET brightness == IF "brightness" \in DOMAIN a THEN a.brightness ELSE F.brightness
             pct == brightness_percent(brightness)
             red == ((a.rgb[1] * pct) \div 100) \div 2
             green == ((a.rgb[2] * pct) \div 100) \div 2
             blue == ((a.rgb[3] * pct) \div 100) \div 2
         IN Command(<<7, 67, 79, 76, 79, red, green, blue>> \o Zeros(8))

\* lines 388-405: the colour packet, handed to _write
set_rgb_color_write(a, k, F) ==
    IF k = 1 THEN Command(_stopmiccommand)
    ELSE LET brightness == IF "brightness" \in DOMAIN a THEN a.brightness ELSE F.brightness
             pct == brightness_percent(brightness)
             red == ((a.rgb[1] * pct) \div 100) \div 2
             green == ((a.rgb[2] * pct) \div 100) \div 2
             blue == ((a.rgb[3] * pct) \div 100) \div 2
         IN Command(<<7, 67, 79, 76, 79, green, red, blue>> \o Zeros(8))

\* a = [effect |-> name, brightness |-> 0..255]
set_effect(a, k, F) ==
    CASE k = 0 -> IF a.effect \notin EFFECT_LIST
                  THEN Plan(F, "return", 0, "set_effect", a)
                  ELSE IF a.effect = EFFECT_MICROPHONE
                  THEN Plan([F EXCEPT !.effect = a.effect, !.usingmic = TRUE],
                            "write", 4, "set_effect", a)
                  ELSE Plan([F EXCEPT !.effect = a.effect], "write", 1, "set_effect", a)
      [] k = 1 -> Plan(F, "write", 2, "set_effect", a)
      [] k = 2 -> Plan(F, "write", 3, "set_effect", a)
      [] OTHER -> Plan(F, "return", 0, "set_effect", a)

\* set_effect without the microphone branch and without min(effect_id, 11)
set_effect_writeAnyId(a, k, F) ==
    LET effect_id == EFFECT_MAP[a.effect]
        brightness_pct == brightness_percent(a.brightness)
        header == <<14, 69, 70, 70, effect_id, 7>>
    IN CASE k = 1 -> Command(header \o <<3>> \o Grb(F.colors[1], brightness_pct)
                             \o Grb(F.colors[2], brightness_pct)
                             \o Grb(F.colors[3], brightness_pct))
         [] k = 2 -> Command(header \o <<19>> \o Grb(F.colors[4], brightness_pct)
                             \o Grb(F.colors[5], brightness_pct)
                             \o Grb(F.colors[6], brightness_pct))
         [] OTHER -> Command(header \o <<33>> \o Grb(F.colors[7], brightness_pct)
                             \o Zeros(6))

\* lines 416-489: the microphone command, or the k-th of the three packets
\* that carry the palette
set_effect_write(a, k, F) ==
    IF k = 4 THEN Command(_startmiccommand)
    ELSE LET effect_id == Min(EFFECT_MAP[a.effect], 11)
             brightness_pct == brightness_percent(a.brightness)
             header == <<14, 69, 70, 70, effect_id, 7>>
         IN CASE k = 1 -> Command(header \o <<3>> \o Grb(F.colors[1], brightness_pct)
                                  \o Grb(F.colors[2], brightness_pct)
                                  \o Grb(F.colors[3], brightness_pct))
              [] k = 2 -> Command(header \o <<19>> \o Grb(F.colors[4], brightness_pct)
                                  \o Grb(F.colors[5], brightness_pct)
                                  \o Grb(F.colors[6], brightness_pct))
              [] OTHER -> Command(header \o <<33>> \o Grb(F.colors[7], brightness_pct)
                                  \o Zeros(6))

\* set_effect_colour that sets the effect again without storing the colour
set_effect_colourNoStore(a, k, F) ==
    IF F.effect # None /\ F.effect # EFFECT_MICROPHONE /\ F.is_on = "True"
    THEN set_effect([effect |-> F.effect, brightness |-> F.brightness], 0, F)
    ELSE Plan(F, "return", 0, "set_effect_colour", a)

\* `list[i] = x` on a list of n items: the position assigned (from 1), a
\* negative i counting from the end; 0 stands for IndexError
ListSlot(n, i) ==
    IF 0 <= i /\ i < n THEN i + 1
    ELSE IF 0 - n <= i /\ i < 0 THEN n + i + 1
    ELSE 0

\* a = [index |-> i, colour |-> <<r, g, b>>]: the palette entry is stored
\* (line 327), then set_effect is called with the current effect and
\* brightness when an effect other than the microphone is active and the
\* device is on
set_effect_colour(a, k, F) ==
    LET slot == ListSlot(Len(F.colors), a.index) IN
    IF slot = 0
    THEN Plan(F, "raise", 0, "set_effect_colour", a)
    ELSE LET G == [F EXCEPT !.colors[slot] = a.colour] IN
         IF G.effect # None /\ G.effect # EFFECT_MICROPHONE /\ G.is_on = "True"
         THEN set_effect([effect |-> G.effect, brightness |-> G.brightness], 0, G)
         ELSE Plan(G, "return", 0, "set_effect_colour", a)

set_speed(speed, k, F) ==
    CASE k = 0 -> LET v == Min(speed, 100) IN
                  IF v = F.speed THEN Plan(F, "return", 0, "set_speed", speed)
                  ELSE Plan([F EXCEPT !.speed = v], "write", 1, "set_speed", speed)
      [] OTHER -> Plan(F, "return", 0, "set_speed", speed)

\* the speed packet built from the argument as passed
set_speed_writeUnclamped(speed) ==
    Command(<<6, 83, 80, 69, 69, 68, speed>> \o Zeros(9))

set_speed_write(speed) ==
    Command(<<6, 83, 80, 69, 69, 68, Min(speed, 100)>> \o Zeros(9))

set_brightness(brightness, k, F) ==
    CASE k = 0 -> LET v == Min(brightness, 255) IN
                  IF v = F.brightness THEN Plan(F, "return", 0, "set_brightness", brightness)
                  ELSE Plan([F EXCEPT !.brightness = v], "write", 1, "set_brightness", brightness)
      [] OTHER -> Plan(F, "return", 0, "set_brightness", brightness)

Max(a, b) == IF a >= b THEN a ELSE b

set_brightness_write(brightness) ==
    Command(<<6, 76, 73, 71, 72, 84, Max(3, brightness_percent(Min(brightness, 255)))>>
            \o Zeros(9))

update(k, F) ==
    CASE k = 0 -> Plan(F, "ensure", 1, "update", None)
      [] OTHER -> Plan([F EXCEPT !.is_on = "True"], "return", 0, "update", None)

Body(o, a, k, F) ==
    CASE o = "turn_on" -> turn_on(k, F)
      [] o = "turn_off" -> turn_off(k, F)
      [] o = "set_rgb_color" -> set_rgb_color(a, k, F)
      [] o = "set_effect" -> set_effect(a, k, F)
      [] o = "set_effect_colour" -> set_effect_colour(a, k, F)
      [] o = "set_speed" -> set_speed(a, k, F)
      [] o = "set_brightness" -> set_brightness(a, k, F)
      [] OTHER -> update(k, F)

\* the write_gatt_char call a body suspended in _write makes: the body is
\* operation o with argument a and resumes at k
Write(o, a, k, F) ==
    CASE o = "turn_on" -> turn_on_write(k)
      [] o = "turn_off" -> turn_off_write(k)
      [] o = "set_rgb_color" -> set_rgb_color_write(a, k, F)
      [] o = "set_effect" -> set_effect_write(a, k, F)
      [] o = "set_speed" -> set_speed_write(a)
      [] OTHER -> set_brightness_write(a)

\* the methods decorated with @retry_bluetooth_connection_error
Wrapped == {"set_rgb_color", "set_effect", "turn_on", "turn_off", "update"}

(***************************************************************************)
(* IDEALLEDInstance: session                                               *)
(***************************************************************************)
\* _reset_disconnect_timer that schedules without cancelling the stored handle
reset_disconnect_timerNoCancel ==
    /\ _expected_disconnect' = FALSE
    /\ IF _delay # 0
       THEN /\ TimerIds \ scheduled # {}
            /\ _disconnect_timer' = Fresh(TimerIds, scheduled)
            /\ scheduled' = scheduled \cup {Fresh(TimerIds, scheduled)}
       ELSE /\ UNCHANGED <<scheduled, _disconnect_timer>>

\* _reset_disconnect_timer (lines 583-594)
reset_disconnect_timer ==
    LET cancelled == scheduled \ {_disconnect_timer} IN
    /\ _expected_disconnect' = FALSE
    /\ IF _delay # 0
       THEN /\ TimerIds \ cancelled # {}
            /\ _disconnect_timer' = Fresh(TimerIds, cancelled)
            /\ scheduled' = cancelled \cup {Fresh(TimerIds, cancelled)}
       ELSE /\ scheduled' = cancelled
            /\ UNCHANGED _disconnect_timer

\* a callback that takes the expected branch whatever the flag
disconnectedAlwaysDebug(l) ==
    cb_log' = "debug"

\* _disconnected: the callback the transport runs when link l goes down
disconnected(l) ==
    cb_log' = IF _expected_disconnect THEN "debug" ELSE "warning"

\* _resolve_characteristics: a handle is replaced when the catalogue holds the
\* characteristic and kept otherwise.  cat = [of |-> link, has |-> characteristics]
Resolve(old, cat, ch) == IF ch \in cat.has THEN cat.of ELSE old

resolve_characteristics(cat) ==
    /\ Resolve(_read_uuid, cat, "read") # Nil
    /\ Resolve(_write_uuid, cat, "write") # Nil
    /\ Resolve(_write_colour_uuid, cat, "colour") # Nil

SetResolved(cat) ==
    /\ _read_uuid' = Resolve(_read_uuid, cat, "read")
    /\ _write_uuid' = Resolve(_write_uuid, cat, "write")
    /\ _write_colour_uuid' = Resolve(_write_colour_uuid, cat, "colour")

\* _ensure_connected has returned to the body: update() goes on to its end,
\* a command calls write_gatt_char
AfterEnsure(plan) ==
    IF plan.nxt = "ensure" THEN Body(plan.op, plan.arg, plan.stage, plan.F) ELSE plan

\* _ensure_connected without its first check: every call takes the connect lock
ProceedAlwaysLocks(t, att, plan, lk, e) ==
    IF plan.nxt = "return"
    THEN /\ SetFacade(plan.F)
         /\ Finish(t)
         /\ _connect_lock' = lk
         /\ est' = e
         /\ UNCHANGED timer
    ELSE /\ SetFacade(plan.F)
         /\ UNCHANGED timer
         /\ _connect_lock' = Append(lk, t)
         /\ IF lk = <<>>
            THEN /\ est' = Bump(e)
                 /\ Suspend(t, "establish", plan.op, plan.arg, plan.stage, att, Nil, Nil)
            ELSE /\ est' = e
                 /\ Suspend(t, "lock", plan.op, plan.arg, plan.stage, att, Nil, Nil)

\* A body runs on from `plan` and enters _ensure_connected (lines 525-539).
\* lk and e are the connect lock and the establish count as the run found them.
Proceed(t, att, plan, lk, e) ==
    IF plan.nxt = "return"
    THEN /\ SetFacade(plan.F)
         /\ Finish(t)
         /\ _connect_lock' = lk
         /\ est' = e
         /\ UNCHANGED timer
    ELSE IF Connected
    THEN LET p2 == AfterEnsure(plan) IN
         /\ reset_disconnect_timer
         /\ _connect_lock' = lk
         /\ est' = e
         /\ SetFacade(p2.F)
         /\ IF p2.nxt = "return"
            THEN Finish(t)
            ELSE Suspend(t, "write", p2.op, p2.arg, p2.stage, att, _client, _write_uuid)
    ELSE /\ SetFacade(plan.F)
         /\ UNCHANGED timer
         /\ _connect_lock' = Append(lk, t)
         /\ IF lk = <<>>
            THEN /\ est' = Bump(e)
                 /\ Suspend(t, "establish", plan.op, plan.arg, plan.stage, att, Nil, Nil)
            ELSE /\ est' = e
                 /\ Suspend(t, "lock", plan.op, plan.arg, plan.stage, att, Nil, Nil)

\* the plan a suspended process resumes with once _ensure_connected is done
Pending(t) == Plan(Facade, IF op[t] = "update" THEN "ensure" ELSE "write",
                   stage[t], op[t], arg[t])

\* _ensure_connected returns under the lock path: the lock is already released
Ensured(t, c, wuuid) ==
    LET p2 == AfterEnsure(Pending(t)) IN
    /\ SetFacade(p2.F)
    /\ IF p2.nxt = "return"
       THEN Finish(t)
       ELSE Suspend(t, "write", p2.op, p2.arg, p2.stage, attempt[t], c, wuuid)

\* an exception of class err leaves the body of the operation of t
Raise(t, err, lk, e) ==
    IF op[t] = "update"
    THEN \* `except Exception`: _is_on = None, and update() returns
         /\ SetFacade([Facade EXCEPT !.is_on = "None"])
         /\ Finish(t)
         /\ _connect_lock' = lk
         /\ est' = e
         /\ UNCHANGED timer
    ELSE IF op[t] \notin Wrapped \/ ExceptClause(attempt[t], err) = "raise"
    THEN /\ Finish(t)
         /\ _connect_lock' = lk
         /\ est' = e
         /\ UNCHANGED <<facade, timer>>
    ELSE IF ExceptClause(attempt[t], err) = "sleep"
    THEN /\ Suspend(t, "sleep", op[t], arg[t], 0, attempt[t], Nil, Nil)
         /\ _connect_lock' = lk
         /\ est' = e
         /\ UNCHANGED <<facade, timer>>
    ELSE IF LoopRuns(attempt[t] + 1)
    THEN Proceed(t, attempt[t] + 1, Body(op[t], arg[t], 0, Facade), lk, e)
    ELSE /\ Finish(t)
         /\ _connect_lock' = lk
         /\ est' = e
         /\ UNCHANGED <<facade, timer>>

\* a public command or update() is called
Call(t, o, a) ==
    /\ cls = IDEALLEDInstance
    /\ calls < MaxCalls
    /\ calls' = calls + 1
    /\ pc[t] = "idle"
    /\ Proceed(t, 0, Body(o, a, 0, Facade), _connect_lock, est)
    /\ UNCHANGED <<rvars, obs, cls, faults, drops, _delay, _client, _procedure_lock, _disconnect_reason, endpoints,
                   connected, cause, cb_log>>

\* asyncio.sleep(BLEAK_BACKOFF_TIME) is over: the wrapper calls the method again
SleepDone(t) ==
    /\ cls = IDEALLEDInstance
    /\ pc[t] = "sleep"
    /\ IF LoopRuns(attempt[t] + 1)
       THEN Proceed(t, attempt[t] + 1, Body(op[t], arg[t], 0, Facade), _connect_lock, est)
       ELSE /\ Finish(t)
            /\ UNCHANGED <<_connect_lock, est, facade, timer>>
    /\ UNCHANGED <<rvars, obs, cls, env, _delay, _client, _procedure_lock, _disconnect_reason, endpoints,
                   connected, cause, cb_log>>

\* the connect lock is handed to t, which connects without checking again
LockGrantedNoRecheck(t) ==
    /\ cls = IDEALLEDInstance
    /\ pc[t] = "lock"
    /\ Head(_connect_lock) = t
    /\ est' = Bump(est)
    /\ Suspend(t, "establish", op[t], arg[t], stage[t], attempt[t], Nil, Nil)
    /\ UNCHANGED <<_connect_lock, facade, timer>>
    /\ UNCHANGED <<rvars, obs, cls, env, _delay, _client, _procedure_lock, _disconnect_reason, endpoints,
                   connected, cause, cb_log>>

\* the connect lock is handed to t (lines 533-539): check again under the lock
LockGranted(t) ==
    /\ cls = IDEALLEDInstance
    /\ pc[t] = "lock"
    /\ Head(_connect_lock) = t
    /\ IF Connected
       THEN /\ reset_disconnect_timer
            /\ _connect_lock' = Tail(_connect_lock)
            /\ Ensured(t, _client, _write_uuid)
            /\ UNCHANGED est
       ELSE /\ est' = Bump(est)
            /\ Suspend(t, "establish", op[t], arg[t], stage[t], attempt[t], Nil, Nil)
            /\ UNCHANGED <<_connect_lock, facade, timer>>
    /\ UNCHANGED <<rvars, obs, cls, env, _delay, _client, _procedure_lock, _disconnect_reason, endpoints,
                   connected, cause, cb_log>>

\* what client.services may hold after establish_connection on link l: the
\* cached catalogue handed in, or one discovered on l
Catalogues(l) ==
    {[of |-> l, has |-> h] : h \in Discoverable}
        \cup (IF _cached_services = NoCat THEN {} ELSE {_cached_services})

\* establish_connection returns a connected client (lines 539-559)
EstablishOk(t, cat) ==
    /\ cls = IDEALLEDInstance
    /\ pc[t] = "establish"
    /\ LinkIds \ LinksInUse # {}
    /\ LET l == Fresh(LinkIds, LinksInUse) IN
       /\ cat \in Catalogues(l)
       /\ connected' = connected \cup {l}
       /\ SetResolved(cat)
       /\ IF resolve_characteristics(cat)
          THEN /\ _cached_services' = cat
               /\ _client' = l
               /\ reset_disconnect_timer
               /\ Suspend(t, "notify", op[t], arg[t], stage[t], attempt[t], l,
                          Resolve(_read_uuid, cat, "read"))
          ELSE /\ Suspend(t, "services", op[t], arg[t], stage[t], attempt[t], l, Nil)
               /\ UNCHANGED <<_cached_services, _client, timer>>
    /\ UNCHANGED <<rvars, obs, cls, env, _delay, _connect_lock, _procedure_lock, _disconnect_reason, facade,
                   ghost, cb_log>>

\* establish_connection raises and the connect lock stays with the caller
EstablishFailKeepsLock(t, err) ==
    /\ cls = IDEALLEDInstance
    /\ faults < MaxFaults
    /\ faults' = faults + 1
    /\ pc[t] = "establish"
    /\ Raise(t, err, _connect_lock, 0)
    /\ UNCHANGED <<rvars, obs, cls, calls, drops, _delay, _client, _procedure_lock, _disconnect_reason, endpoints,
                   connected, cause, cb_log>>

\* establish_connection raises
EstablishFail(t, err) ==
    /\ cls = IDEALLEDInstance
    /\ faults < MaxFaults
    /\ faults' = faults + 1
    /\ pc[t] = "establish"
    /\ Raise(t, err, Tail(_connect_lock), 0)
    /\ UNCHANGED <<rvars, obs, cls, calls, drops, _delay, _client, _procedure_lock, _disconnect_reason, endpoints,
                   connected, cause, cb_log>>

\* client.get_services() returns a freshly fetched catalogue (lines 551-559);
\* reached when the catalogue of the new client lacks a characteristic
ServicesOk(t, has) ==
    /\ cls = IDEALLEDInstance
    /\ pc[t] = "services"
    /\ lclient[t] \in connected
    /\ LET cat == [of |-> lclient[t], has |-> has] IN
       /\ SetResolved(cat)
       /\ _cached_services' = IF resolve_characteristics(cat) THEN cat ELSE NoCat
       /\ _client' = lclient[t]
       /\ reset_disconnect_timer
       /\ Suspend(t, "notify", op[t], arg[t], stage[t], attempt[t], lclient[t],
                  Resolve(_read_uuid, cat, "read"))
    /\ UNCHANGED <<rvars, obs, cls, env, _delay, _connect_lock, _procedure_lock, _disconnect_reason, facade,
                   connected, ghost, cb_log>>

\* client.get_services() raises: the new link stays up, referenced by nothing
ServicesFail(t, err) ==
    /\ cls = IDEALLEDInstance
    /\ faults < MaxFaults
    /\ faults' = faults + 1
    /\ pc[t] = "services"
    /\ Raise(t, err, Tail(_connect_lock), 0)
    /\ UNCHANGED <<rvars, obs, cls, calls, drops, _delay, _client, _procedure_lock, _disconnect_reason, endpoints,
                   connected, cause, cb_log>>

\* client.start_notify returns: _ensure_connected is done
NotifyOk(t) ==
    /\ cls = IDEALLEDInstance
    /\ pc[t] = "notify"
    /\ lclient[t] \in connected
    /\ lchar[t] # Nil
    /\ _connect_lock' = Tail(_connect_lock)
    /\ Ensured(t, _client, _write_uuid)
    /\ UNCHANGED <<rvars, obs, cls, env, _delay, _client, _procedure_lock, _disconnect_reason, endpoints,
                   timer, connected, ghost, cb_log>>

\* client.start_notify raises
NotifyFail(t, err) ==
    /\ cls = IDEALLEDInstance
    /\ faults < MaxFaults
    /\ faults' = faults + 1
    /\ pc[t] = "notify"
    /\ Raise(t, err, Tail(_connect_lock), est)
    /\ UNCHANGED <<rvars, obs, cls, calls, drops, _delay, _client, _procedure_lock, _disconnect_reason, endpoints,
                   connected, cause, cb_log>>

\* client.start_notify(self._read_uuid, ...) is called with _read_uuid still
\* None (line 559): the transport rejects the call, with its own error class
\* or with another one
NotifyUnresolved(t, err) ==
    /\ cls = IDEALLEDInstance
    /\ pc[t] = "notify"
    /\ lchar[t] = Nil
    /\ Raise(t, err, Tail(_connect_lock), est)
    /\ UNCHANGED <<rvars, obs, cls, env, _delay, _client, _procedure_lock, _disconnect_reason, endpoints,
                   connected, cause, cb_log>>

\* write_gatt_char returns: the body runs on
WriteOk(t) ==
    /\ cls = IDEALLEDInstance
    /\ pc[t] = "write"
    /\ lclient[t] \in connected
    /\ lchar[t] # Nil
    /\ Proceed(t, attempt[t], Body(op[t], arg[t], stage[t], Facade), _connect_lock, est)
    /\ UNCHANGED <<rvars, obs, cls, env, _delay, _client, _procedure_lock, _disconnect_reason, endpoints,
                   connected, cause, cb_log>>

\* write_gatt_char raises
WriteFail(t, err) ==
    /\ cls = IDEALLEDInstance
    /\ faults < MaxFaults
    /\ faults' = faults + 1
    /\ pc[t] = "write"
    /\ Raise(t, err, _connect_lock, est)
    /\ UNCHANGED <<rvars, obs, cls, calls, drops, _delay, _client, _procedure_lock, _disconnect_reason, endpoints,
                   connected, cause, cb_log>>

\* _execute_disconnect that leaves _expected_disconnect as it is
execute_disconnectKeepsFlag(p, o, lk) ==
    /\ UNCHANGED _expected_disconnect
    /\ _client' = Nil
    /\ _write_uuid' = Nil
    /\ _read_uuid' = Nil
    /\ IF Connected
       THEN /\ est' = 0
            /\ cause' = IF o = "timed" THEN "idle" ELSE "user"
            /\ _connect_lock' = lk
            /\ Suspend(p, "stop_notify", o, None, 0, 0, _client, _read_uuid)
       ELSE /\ _connect_lock' = Tail(lk)
            /\ Finish(p)
            /\ UNCHANGED ghost
    /\ UNCHANGED <<_disconnect_timer, scheduled, _cached_services, _write_colour_uuid>>

\* _execute_disconnect with the connect lock held (lines 621-630)
execute_disconnect(p, o, lk) ==
    /\ _expected_disconnect' = TRUE
    /\ _client' = Nil
    /\ _write_uuid' = Nil
    /\ _read_uuid' = Nil
    /\ IF Connected
       THEN /\ est' = 0
            /\ cause' = IF o = "timed" THEN "idle" ELSE "user"
            /\ _connect_lock' = lk
            /\ Suspend(p, "stop_notify", o, None, 0, 0, _client, _read_uuid)
       ELSE /\ _connect_lock' = Tail(lk)
            /\ Finish(p)
            /\ UNCHANGED ghost
    /\ UNCHANGED <<_disconnect_timer, scheduled, _cached_services, _write_colour_uuid>>

\* _execute_disconnect is entered (line 620)
EnterDisconnect(p, o) ==
    IF _connect_lock = <<>>
    THEN execute_disconnect(p, o, <<p>>)
    ELSE /\ _connect_lock' = Append(_connect_lock, p)
         /\ Suspend(p, "dlock", o, None, 0, 0, Nil, Nil)
         /\ UNCHANGED <<_client, endpoints, timer, ghost>>

\* stop() is called
Stop(t) ==
    /\ cls = IDEALLEDInstance
    /\ calls < MaxCalls
    /\ calls' = calls + 1
    /\ pc[t] = "idle"
    /\ EnterDisconnect(t, "stop")
    /\ UNCHANGED <<rvars, obs, cls, faults, drops, _delay, _procedure_lock, _disconnect_reason, facade, connected, cb_log>>

\* the idle timer h expires: _disconnect (lines 603-606) creates the task
TimerFires(h, b) ==
    /\ cls = IDEALLEDInstance
    /\ h \in scheduled
    /\ pc[b] = "idle"
    /\ scheduled' = scheduled \ {h}
    /\ _disconnect_timer' = Nil
    /\ Suspend(b, "created", "timed", None, 0, 0, Nil, Nil)
    /\ UNCHANGED <<rvars, obs, cls, env, _delay, _client, _connect_lock, _procedure_lock, _disconnect_reason,
                   facade, endpoints, _expected_disconnect, connected, ghost, cb_log>>

\* the task runs _execute_timed_disconnect (lines 613-616)
TimedDisconnect(b) ==
    /\ cls = IDEALLEDInstance
    /\ pc[b] = "created"
    /\ EnterDisconnect(b, "timed")
    /\ UNCHANGED <<rvars, obs, cls, env, _delay, _procedure_lock, _disconnect_reason, facade, connected, cb_log>>

\* the connect lock is handed to a waiting _execute_disconnect
DisconnectGranted(p) ==
    /\ cls = IDEALLEDInstance
    /\ pc[p] = "dlock"
    /\ Head(_connect_lock) = p
    /\ execute_disconnect(p, op[p], _connect_lock)
    /\ UNCHANGED <<rvars, obs, cls, env, _delay, _procedure_lock, _disconnect_reason, facade, connected, cb_log>>

\* client.stop_notify returns
StopNotifyOk(p) ==
    /\ cls = IDEALLEDInstance
    /\ pc[p] = "stop_notify"
    /\ lclient[p] \in connected
    /\ lchar[p] # Nil
    /\ pc' = [pc EXCEPT ![p] = "disconnect"]
    /\ UNCHANGED <<rvars, obs, cls, env, _delay, _client, _connect_lock, _procedure_lock, _disconnect_reason,
                   facade, endpoints, timer, connected, ghost, cb_log,
                   op, arg, stage, attempt, lclient, lchar>>

\* an exception that leaves _execute_disconnect with the connect lock held
DisconnectFailsKeepsLock(p, err) ==
    /\ cls = IDEALLEDInstance
    /\ faults < MaxFaults
    /\ faults' = faults + 1
    /\ pc[p] \in {"stop_notify", "disconnect"}
    /\ Finish(p)
    /\ UNCHANGED <<rvars, obs, cls, calls, drops, _delay, _client, _connect_lock, _procedure_lock,
                   _disconnect_reason, facade, endpoints, timer, connected, ghost, cb_log>>

\* client.stop_notify or client.disconnect raises: the lock is released and
\* the exception leaves _execute_disconnect
DisconnectFails(p, err) ==
    /\ cls = IDEALLEDInstance
    /\ faults < MaxFaults
    /\ faults' = faults + 1
    /\ pc[p] \in {"stop_notify", "disconnect"}
    /\ _connect_lock' = Tail(_connect_lock)
    /\ Finish(p)
    /\ UNCHANGED <<rvars, obs, cls, calls, drops, _delay, _client, _procedure_lock, _disconnect_reason,
                   facade, endpoints, timer, connected, ghost, cb_log>>

\* client.disconnect returns: the link is down and the transport has run the
\* disconnect callback
DisconnectOk(p) ==
    /\ cls = IDEALLEDInstance
    /\ pc[p] = "disconnect"
    /\ connected' = connected \ {lclient[p]}
    /\ IF lclient[p] \in connected
       THEN disconnected(lclient[p])
       ELSE UNCHANGED cb_log
    /\ _connect_lock' = Tail(_connect_lock)
    /\ Finish(p)
    /\ UNCHANGED <<rvars, obs, cls, env, _delay, _client, _procedure_lock, _disconnect_reason,
                   facade, endpoints, timer, ghost>>

\* the peer closes link l: the transport runs the disconnect callback
PeerCloses(l) ==
    /\ cls = IDEALLEDInstance
    /\ drops < MaxDrops
    /\ drops' = drops + 1
    /\ l \in connected
    /\ connected' = connected \ {l}
    /\ disconnected(l)
    /\ IF l = _client
       THEN est' = 0 /\ cause' = "peer"
       ELSE UNCHANGED ghost
    /\ UNCHANGED <<rvars, obs, cls, calls, faults, _delay, _client, _connect_lock, _procedure_lock, _disconnect_reason,
                   facade, endpoints, timer, procs>>

(***************************************************************************)
(* IDEALLEDInstance: the commands with the bytes they write, run by one     *)
(* caller, one command at a time.  _write (lines 232-243) is taken as one   *)
(* await: _ensure_connected, the encryption and write_gatt_char return, or  *)
(* one of the two transport calls raises.                                   *)
(***************************************************************************)
\* commands one behaviour runs, the polling update() apart
MaxCommands == 2
\* failures of _write and _ensure_connected in a behaviour of the facade
\* specification: enough for the wrapper to use up its attempts
MaxWriteFaults == 2

\* the arguments the caller passes
FacadeBrightness == {0, 128, 255}
\* the values set_brightness is called with: those, one whose percent has a
\* fraction above a half, and one above 255
FacadeLevels == FacadeBrightness \cup {9, 300}
FacadeColours == {<<255, 0, 0>>, <<1, 128, 255>>}
FacadeSpeeds == {50, 100, 150}
PaletteSlots == 0..6
\* the indices callers pass: the slots, and integers on either side of them
PaletteIndices == {-8, -7, -1} \cup PaletteSlots \cup {7}

FacadeCommands ==
    {<<"turn_on", None>>, <<"turn_off", None>>}
    \cup {<<"set_brightness", b>> : b \in FacadeLevels}
    \cup {<<"set_speed", v>> : v \in FacadeSpeeds}
    \cup {<<"set_rgb_color", [rgb |-> c, brightness |-> b]>> :
              c \in FacadeColours, b \in FacadeBrightness}
    \cup {<<"set_rgb_color", [rgb |-> c]>> : c \in FacadeColours}
    \cup {<<"set_effect", [effect |-> e, brightness |-> b]>> :
              e \in EFFECT_LIST, b \in FacadeBrightness}
    \cup {<<"set_effect_colour", [index |-> i, colour |-> c]>> :
              i \in PaletteIndices, c \in FacadeColours}

Caller == CHOOSE t \in Tasks : \A u \in Tasks : t <= u

NotOfFacade ==
    <<rvars, cls, _delay, _client, _connect_lock, _procedure_lock, _disconnect_reason,
      endpoints, timer, connected, ghost, cb_log, drops, codec, peripheral, delivered>>

\* the body runs from `plan` to its next await or to its end; l is the record
\* of the command
FacadeRun(att, plan, l) ==
    /\ SetFacade(plan.F)
    /\ IF plan.nxt = "return"
       THEN /\ Finish(Caller)
            /\ last' = [l EXCEPT !.out = "returned"]
       ELSE IF plan.nxt = "raise"
       THEN /\ Finish(Caller)
            /\ last' = [l EXCEPT !.out = "raised"]
       ELSE /\ Suspend(Caller, plan.nxt, plan.op, plan.arg, plan.stage, att, Nil, Nil)
            /\ last' = l

\* a command is called
FacadeCall(o, a) ==
    /\ cls = IDEALLEDInstance
    /\ pc[Caller] = "idle"
    /\ IF o = "update"
       THEN UNCHANGED calls
       ELSE calls < MaxCommands /\ calls' = calls + 1
    /\ entry' = Facade
    /\ wire' = <<>>
    /\ FacadeRun(0, Body(o, a, 0, Facade), [op |-> o, arg |-> a, out |-> "running", err |-> None, att |-> 0])
    /\ UNCHANGED <<NotOfFacade, faults, received>>

\* _write returns: the packet went to the device and the body runs on
FacadeWriteOk ==
    /\ cls = IDEALLEDInstance
    /\ pc[Caller] = "write"
    /\ wire' = Append(wire, Write(op[Caller], arg[Caller], stage[Caller], Facade))
    /\ received' = CASE op[Caller] = "set_speed" -> [received EXCEPT !.speed = Min(arg[Caller], 100)]
                      [] op[Caller] = "set_brightness" ->
                            [received EXCEPT !.brightness = Min(arg[Caller], 255)]
                      [] OTHER -> received
    /\ FacadeRun(attempt[Caller],
                 Body(op[Caller], arg[Caller], stage[Caller], Facade), last)
    /\ UNCHANGED <<NotOfFacade, calls, faults, entry>>

\* update(): _ensure_connected returns
FacadeEnsureOk ==
    /\ cls = IDEALLEDInstance
    /\ pc[Caller] = "ensure"
    /\ FacadeRun(attempt[Caller],
                 Body(op[Caller], arg[Caller], stage[Caller], Facade), last)
    /\ UNCHANGED <<NotOfFacade, calls, faults, entry, wire, received>>

\* update(): _ensure_connected raises, `except Exception` takes it
FacadeEnsureFail ==
    /\ cls = IDEALLEDInstance
    /\ pc[Caller] = "ensure"
    /\ faults < MaxWriteFaults
    /\ faults' = faults + 1
    /\ SetFacade([Facade EXCEPT !.is_on = "None"])
    /\ Finish(Caller)
    /\ last' = [last EXCEPT !.out = "returned"]
    /\ UNCHANGED <<NotOfFacade, calls, entry, wire, received>>

\* the wrapper's next attempt repeats the write that failed instead of calling
\* the method again
FacadeWriteFailResumes(err, issued) ==
    /\ cls = IDEALLEDInstance
    /\ pc[Caller] = "write"
    /\ faults < MaxWriteFaults
    /\ faults' = faults + 1
    /\ wire' = IF issued
               THEN Append(wire, Write(op[Caller], arg[Caller], stage[Caller], Facade))
               ELSE wire
    /\ IF op[Caller] \notin Wrapped \/ ExceptClause(attempt[Caller], err) = "raise"
       THEN /\ Finish(Caller)
            /\ last' = [last EXCEPT !.out = "raised", !.err = err, !.att = attempt[Caller]]
            /\ UNCHANGED facade
       ELSE IF ExceptClause(attempt[Caller], err) = "sleep"
       THEN /\ Suspend(Caller, "sleep", op[Caller], arg[Caller], 0, attempt[Caller], Nil, Nil)
            /\ UNCHANGED <<facade, last>>
       ELSE IF LoopRuns(attempt[Caller] + 1)
       THEN FacadeRun(attempt[Caller] + 1,
                      Plan(Facade, "write", stage[Caller], op[Caller], arg[Caller]), last)
       ELSE /\ Finish(Caller)
            /\ last' = [last EXCEPT !.out = "returned"]
            /\ UNCHANGED facade
    /\ UNCHANGED <<NotOfFacade, calls, entry, received>>

\* _write raises err: establish_connection or start_notify raised (nothing
\* was issued), or write_gatt_char did (issued).  The wrapper of a decorated
\* method decides what follows.
FacadeWriteFail(err, issued) ==
    /\ cls = IDEALLEDInstance
    /\ pc[Caller] = "write"
    /\ faults < MaxWriteFaults
    /\ faults' = faults + 1
    /\ wire' = IF issued
               THEN Append(wire, Write(op[Caller], arg[Caller], stage[Caller], Facade))
               ELSE wire
    /\ IF op[Caller] \notin Wrapped \/ ExceptClause(attempt[Caller], err) = "raise"
       THEN /\ Finish(Caller)
            /\ last' = [last EXCEPT !.out = "raised", !.err = err, !.att = attempt[Caller]]
            /\ UNCHANGED facade
       ELSE IF ExceptClause(attempt[Caller], err) = "sleep"
       THEN /\ Suspend(Caller, "sleep", op[Caller], arg[Caller], 0, attempt[Caller], Nil, Nil)
            /\ UNCHANGED <<facade, last>>
       ELSE IF LoopRuns(attempt[Caller] + 1)
       THEN FacadeRun(attempt[Caller] + 1, Body(op[Caller], arg[Caller], 0, Facade), last)
       ELSE /\ Finish(Caller)
            /\ last' = [last EXCEPT !.out = "returned"]
            /\ UNCHANGED facade
    /\ UNCHANGED <<NotOfFacade, calls, entry, received>>

\* asyncio.sleep(BLEAK_BACKOFF_TIME) is over: the wrapper calls the method again
FacadeSleepDone ==
    /\ cls = IDEALLEDInstance
    /\ pc[Caller] = "sleep"
    /\ IF LoopRuns(attempt[Caller] + 1)
       THEN FacadeRun(attempt[Caller] + 1, Body(op[Caller], arg[Caller], 0, Facade), last)
       ELSE /\ Finish(Caller)
            /\ last' = [last EXCEPT !.out = "returned"]
            /\ UNCHANGED facade
    /\ UNCHANGED <<NotOfFacade, calls, faults, entry, wire, received>>

(***************************************************************************)
(* The codec on its own: _write encrypts a packet, and the notification     *)
(* handler is run on the bytes that were written.                           *)
(***************************************************************************)
\* the plaintext packets: those of turn_on and turn_off, the speed packets,
\* and blocks of other bytes (all zero and all 255 among them)
CodecPackets ==
    {turn_on_write(1).data, turn_on_write(2).data,
     turn_off_write(1).data, turn_off_write(2).data}
    \cup {set_speed_write(v).data : v \in 0..100}
    \cup {[i \in 1..16 |-> (x * i) % 256] : x \in 0..31}
    \cup {[i \in 1..16 |-> 255]}

\* _write(data) up to write_gatt_char
CodecWrite(data) ==
    /\ ciphered = <<>>
    /\ packet' = data
    /\ ciphered' = ciphered_data(data)
    /\ UNCHANGED <<cleared, peripheral, delivered, received, rvars, cls, _delay, _client, _connect_lock, _procedure_lock,
                   _disconnect_reason, facade, endpoints, timer, procs, connected, ghost,
                   cb_log, env, wire, entry, last>>

\* _notification_handler(sender, data) on the bytes that were written
CodecNotification ==
    /\ ciphered # <<>>
    /\ cleared = <<>>
    /\ cleared' = clear_data(ciphered)
    /\ UNCHANGED <<packet, ciphered, peripheral, delivered, received, rvars, cls, _delay, _client, _connect_lock,
                   _procedure_lock, _disconnect_reason, facade, endpoints, timer, procs,
                   connected, ghost, cb_log, env, wire, entry, last>>

(***************************************************************************)
(* iDealLed: session.  update() runs _execute(NullProcedure); "execute"    *)
(* stands for _execute with a procedure whose execute() awaits once.       *)
(***************************************************************************)
DISCONNECT_DELAY == 180

\* errors.py: the domain error base class, and Timeout(BleakError, iDealLedError)
iDealLedError == "iDealLedError"
Timeout == "Timeout"
Disconnected == "Disconnected"

\* fields and variables that no iDealLed step touches
NotOfLed == <<rvars, obs, cls, _delay, facade, endpoints>>

\* the operations that go through _execute
Executed == {"update", "execute"}

\* _reset_disconnect_timer: always schedules
led_reset_disconnect_timer ==
    LET cancelled == scheduled \ {_disconnect_timer} IN
    /\ TimerIds \ cancelled # {}
    /\ _expected_disconnect' = FALSE
    /\ _disconnect_timer' = Fresh(TimerIds, cancelled)
    /\ scheduled' = cancelled \cup {Fresh(TimerIds, cancelled)}

\* _reset
led_reset(reason) ==
    /\ _disconnect_reason' = reason
    /\ scheduled' = scheduled \ {_disconnect_timer}
    /\ _disconnect_timer' = Nil

\* _disconnect(reason): asyncio.create_task(_execute_disconnect(reason)) makes
\* the background task b; c is the stored client as the call found it, kept
\* with the task until it reads self._client itself
Spawn(b, reason, c) ==
    /\ pc[b] = "idle"
    /\ pc' = [pc EXCEPT ![b] = "created"]
    /\ op' = [op EXCEPT ![b] = reason]
    /\ lclient' = [lclient EXCEPT ![b] = c]
    /\ UNCHANGED <<arg, stage, attempt, lchar>>

\* the same, in a run that ends the operation of t
FinishSpawn(t, b, reason, c) ==
    /\ pc[b] = "idle"
    /\ pc' = [pc EXCEPT ![t] = "idle", ![b] = "created"]
    /\ op' = [op EXCEPT ![t] = None, ![b] = reason]
    /\ arg' = [arg EXCEPT ![t] = None]
    /\ stage' = [stage EXCEPT ![t] = 0]
    /\ attempt' = [attempt EXCEPT ![t] = 0]
    /\ lclient' = [lclient EXCEPT ![t] = Nil, ![b] = c]
    /\ lchar' = [lchar EXCEPT ![t] = Nil]

\* _ensure_connected has returned to its caller t, which runs on to its next
\* await; pl is the procedure lock as the run holds it
LedAfterEnsure(t, o, att, pl) ==
    CASE o = "connect" -> Finish(t) /\ _procedure_lock' = pl
      [] o = "update" -> Finish(t) /\ _procedure_lock' = Tail(pl)
      [] OTHER -> /\ Suspend(t, "procedure", o, None, 0, att, Nil, Nil)
                  /\ _procedure_lock' = pl

\* _ensure_connected is entered (lines 141-157)
led_ensure_connected(t, o, att, pl) ==
    IF Connected
    THEN /\ led_reset_disconnect_timer
         /\ LedAfterEnsure(t, o, att, pl)
         /\ UNCHANGED <<_connect_lock, est>>
    ELSE /\ _procedure_lock' = pl
         /\ _connect_lock' = Append(_connect_lock, t)
         /\ UNCHANGED timer
         /\ IF _connect_lock = <<>>
            THEN /\ est' = Bump(est)
                 /\ Suspend(t, "establish", o, None, 0, att, Nil, Nil)
            ELSE /\ est' = est
                 /\ Suspend(t, "lock", o, None, 0, att, Nil, Nil)

\* _execute is entered (lines 111-120)
led_execute(t, o, att) ==
    IF _procedure_lock = <<>>
    THEN led_ensure_connected(t, o, att, <<t>>)
    ELSE /\ _procedure_lock' = Append(_procedure_lock, t)
         /\ Suspend(t, "plock", o, None, 0, att, Nil, Nil)
         /\ UNCHANGED <<_connect_lock, est, timer>>

\* the wrapper applied to _execute (line 102) is bleak_retry_connector's: an
\* error of BLEAK_EXCEPTIONS is retried after a backoff sleep unless the
\* attempt was the last; anything else is raised
LedRetries(t, err) ==
    op[t] \in Executed /\ err \in BLEAK_EXCEPTIONS \cup {Timeout} /\ attempt[t] < DEFAULT_ATTEMPTS - 1

\* an exception of class err leaves the operation of t
LedRaise(t, err) ==
    IF LedRetries(t, err)
    THEN Suspend(t, "sleep", op[t], None, 0, attempt[t], Nil, Nil)
    ELSE Finish(t)

\* update(), connect() or _execute(procedure) is called
LedCall(t, o) ==
    /\ cls = iDealLed
    /\ pc[t] = "idle"
    /\ calls < MaxCalls
    /\ calls' = calls + 1
    /\ IF o = "connect"
       THEN led_ensure_connected(t, o, 0, _procedure_lock)
       ELSE led_execute(t, o, 0)
    /\ UNCHANGED <<NotOfLed, _client, _disconnect_reason, connected, cause, cb_log, faults, drops>>

\* the backoff sleep is over: the wrapper calls _execute again
LedSleepDone(t) ==
    /\ cls = iDealLed
    /\ pc[t] = "sleep"
    /\ led_execute(t, op[t], attempt[t] + 1)
    /\ UNCHANGED <<NotOfLed, _client, _disconnect_reason, connected, cause, cb_log, env>>

\* the procedure lock is handed to t
LedProcedureGranted(t) ==
    /\ cls = iDealLed
    /\ pc[t] = "plock"
    /\ Head(_procedure_lock) = t
    /\ led_ensure_connected(t, op[t], attempt[t], _procedure_lock)
    /\ UNCHANGED <<NotOfLed, _client, _disconnect_reason, connected, cause, cb_log, env>>

\* the connect lock is handed to t (lines 151-157): check again under the lock
LedLockGranted(t) ==
    /\ cls = iDealLed
    /\ pc[t] = "lock"
    /\ Head(_connect_lock) = t
    /\ IF Connected
       THEN /\ led_reset_disconnect_timer
            /\ _connect_lock' = Tail(_connect_lock)
            /\ LedAfterEnsure(t, op[t], attempt[t], _procedure_lock)
            /\ UNCHANGED est
       ELSE /\ est' = Bump(est)
            /\ Suspend(t, "establish", op[t], None, 0, attempt[t], Nil, Nil)
            /\ UNCHANGED <<_connect_lock, _procedure_lock, timer>>
    /\ UNCHANGED <<NotOfLed, _client, _disconnect_reason, connected, cause, cb_log, env>>

\* establish_connection returns a connected client (lines 157-181)
LedEstablishOk(t) ==
    /\ cls = iDealLed
    /\ pc[t] = "establish"
    /\ LinkIds \ LinksInUse # {}
    /\ LET l == Fresh(LinkIds, LinksInUse) IN
       /\ connected' = connected \cup {l}
       /\ _client' = l
    /\ _disconnect_reason' = None
    /\ led_reset_disconnect_timer
    /\ _connect_lock' = Tail(_connect_lock)
    /\ LedAfterEnsure(t, op[t], attempt[t], _procedure_lock)
    /\ UNCHANGED <<NotOfLed, ghost, cb_log, env>>

\* establish_connection raises
LedEstablishFail(t, err) ==
    /\ cls = iDealLed
    /\ pc[t] = "establish"
    /\ faults < MaxFaults
    /\ faults' = faults + 1
    /\ est' = 0
    /\ _connect_lock' = Tail(_connect_lock)
    /\ _procedure_lock' = IF op[t] \in Executed THEN Tail(_procedure_lock) ELSE _procedure_lock
    /\ LedRaise(t, err)
    /\ UNCHANGED <<NotOfLed, _client, _disconnect_reason, timer, connected, cause, cb_log,
                   calls, drops>>

\* procedure.execute() returns its result
LedProcedureOk(t) ==
    /\ cls = iDealLed
    /\ pc[t] = "procedure"
    /\ _procedure_lock' = Tail(_procedure_lock)
    /\ Finish(t)
    /\ UNCHANGED <<NotOfLed, _client, _connect_lock, _disconnect_reason, timer, connected,
                   ghost, cb_log, env>>

\* a domain error that leaves _execute without releasing the procedure lock
LedProcedureErrorKeepsLock(t, b) ==
    /\ cls = iDealLed
    /\ pc[t] = "procedure"
    /\ faults < MaxFaults
    /\ faults' = faults + 1
    /\ FinishSpawn(t, b, "ERROR", _client)
    /\ UNCHANGED <<NotOfLed, _client, _connect_lock, _procedure_lock, _disconnect_reason, timer,
                   connected, ghost, cb_log, calls, drops>>

\* procedure.execute() raises a domain error (lines 134-136)
LedProcedureError(t, b) ==
    /\ cls = iDealLed
    /\ pc[t] = "procedure"
    /\ faults < MaxFaults
    /\ faults' = faults + 1
    /\ _procedure_lock' = Tail(_procedure_lock)
    /\ FinishSpawn(t, b, "ERROR", _client)
    /\ UNCHANGED <<NotOfLed, _client, _connect_lock, _disconnect_reason, timer, connected,
                   ghost, cb_log, calls, drops>>

\* procedure.execute() raises a transport error
LedProcedureFails(t, err) ==
    /\ cls = iDealLed
    /\ pc[t] = "procedure"
    /\ faults < MaxFaults
    /\ faults' = faults + 1
    /\ _procedure_lock' = Tail(_procedure_lock)
    /\ LedRaise(t, err)
    /\ UNCHANGED <<NotOfLed, _client, _connect_lock, _disconnect_reason, timer, connected,
                   ghost, cb_log, calls, drops>>

\* a lock's queue without the waiter or holder t
Leave(q, t) == SelectSeq(q, LAMBDA x : x # t)

\* what the CancelledError handler of _execute raises (lines 125-133)
CancelledAs ==
    IF _disconnect_reason = None THEN iDealLedError
    ELSE IF _disconnect_reason = "TIMEOUT" THEN Timeout
    ELSE Disconnected

\* the task running _execute is cancelled at one of its awaits
LedCancel(t) ==
    /\ cls = iDealLed
    /\ op[t] \in Executed
    /\ pc[t] \in {"plock", "sleep", "lock", "establish", "procedure"}
    /\ faults < MaxFaults
    /\ faults' = faults + 1
    /\ IF pc[t] \in {"plock", "sleep"}
       THEN \* outside the try block: the CancelledError goes to the caller
            /\ _procedure_lock' = Leave(_procedure_lock, t)
            /\ Finish(t)
            /\ delivered' = [at |-> pc[t], reason |-> _disconnect_reason, got |-> Cancelled]
            /\ UNCHANGED <<_connect_lock, est>>
       ELSE /\ _connect_lock' = Leave(_connect_lock, t)
            /\ _procedure_lock' = Tail(_procedure_lock)
            /\ est' = IF pc[t] = "establish" THEN 0 ELSE est
            /\ LedRaise(t, CancelledAs)
            /\ delivered' = IF LedRetries(t, CancelledAs)
                            THEN delivered
                            ELSE [at |-> pc[t], reason |-> _disconnect_reason,
                                  got |-> CancelledAs]
    /\ UNCHANGED <<rvars, wire, entry, last, codec, peripheral, received, cls, _delay, facade, endpoints,
                   _client, _disconnect_reason, timer, connected, cause, cb_log, calls, drops>>

\* the reason a disconnecting process passes: disconnect() is USER_REQUESTED,
\* a background task carries the reason it was created with
LedReason(o) == IF o = "disconnect" THEN "USER_REQUESTED" ELSE o

\* _execute_disconnect with the connect lock held (lines 253-260)
led_execute_disconnect(p, o, lk) ==
    /\ _client' = Nil
    /\ IF Connected
       THEN /\ _expected_disconnect' = TRUE
            /\ est' = 0
            /\ cause' = CASE LedReason(o) = "TIMEOUT" -> "idle"
                          [] LedReason(o) = "USER_REQUESTED" -> "user"
                          [] LedReason(o) = "ERROR" -> "error"
                          [] OTHER -> "unexpected"
            /\ _connect_lock' = lk
            /\ Suspend(p, "disconnect", o, None, 0, 0, _client, Nil)
            /\ UNCHANGED <<_disconnect_reason, _disconnect_timer, scheduled>>
       ELSE /\ led_reset(LedReason(o))
            /\ _connect_lock' = Tail(lk)
            /\ Finish(p)
            /\ UNCHANGED <<_expected_disconnect, ghost>>

\* _execute_disconnect is entered (line 252)
led_enter_disconnect(p, o) ==
    IF _connect_lock = <<>>
    THEN led_execute_disconnect(p, o, <<p>>)
    ELSE /\ _connect_lock' = Append(_connect_lock, p)
         /\ Suspend(p, "dlock", o, None, 0, 0, lclient[p], Nil)
         /\ UNCHANGED <<_client, _disconnect_reason, timer, ghost>>

\* disconnect() is called
LedDisconnect(t) ==
    /\ cls = iDealLed
    /\ pc[t] = "idle"
    /\ calls < MaxCalls
    /\ calls' = calls + 1
    /\ led_enter_disconnect(t, "disconnect")
    /\ UNCHANGED <<NotOfLed, _procedure_lock, connected, cb_log, faults, drops>>

\* the idle timer h expires: _timed_disconnect (lines 223-226) creates the task
LedTimerFires(h, b) ==
    /\ cls = iDealLed
    /\ h \in scheduled
    /\ scheduled' = scheduled \ {h}
    /\ _disconnect_timer' = Nil
    /\ Spawn(b, "TIMEOUT", _client)
    /\ UNCHANGED <<NotOfLed, _client, _connect_lock, _procedure_lock, _disconnect_reason,
                   _expected_disconnect, connected, ghost, cb_log, env>>

\* a background task starts to run _execute_disconnect(reason)
LedBgRun(b) ==
    /\ cls = iDealLed
    /\ pc[b] = "created"
    /\ led_enter_disconnect(b, op[b])
    /\ UNCHANGED <<NotOfLed, _procedure_lock, connected, cb_log, env>>

\* the connect lock is handed to a waiting _execute_disconnect
LedDisconnectGranted(p) ==
    /\ cls = iDealLed
    /\ pc[p] = "dlock"
    /\ Head(_connect_lock) = p
    /\ led_execute_disconnect(p, op[p], _connect_lock)
    /\ UNCHANGED <<NotOfLed, _procedure_lock, connected, cb_log, env>>

\* client.disconnect() returns: the link is down, the transport has run the
\* disconnect callback (lines 210-221), and _reset follows
LedDisconnectOk(p) ==
    /\ cls = iDealLed
    /\ pc[p] = "disconnect"
    /\ connected' = connected \ {lclient[p]}
    /\ led_reset(LedReason(op[p]))
    /\ _connect_lock' = Tail(_connect_lock)
    /\ IF lclient[p] \in connected /\ ~_expected_disconnect
       THEN /\ cb_log' = "warning"
            /\ _client' = Nil
            /\ \E b \in BgTasks : FinishSpawn(p, b, "UNEXPECTED", Nil)
       ELSE /\ cb_log' = IF lclient[p] \in connected THEN "debug" ELSE cb_log
            /\ Finish(p)
            /\ UNCHANGED _client
    /\ UNCHANGED <<NotOfLed, _procedure_lock, _expected_disconnect, ghost, env>>

\* client.disconnect() raises: the lock is released, _reset is not reached
LedDisconnectFails(p, err) ==
    /\ cls = iDealLed
    /\ pc[p] = "disconnect"
    /\ faults < MaxFaults
    /\ faults' = faults + 1
    /\ _connect_lock' = Tail(_connect_lock)
    /\ Finish(p)
    /\ UNCHANGED <<NotOfLed, _client, _procedure_lock, _disconnect_reason, timer, connected,
                   ghost, cb_log, calls, drops>>

\* the peer closes link l: the transport runs the disconnect callback
LedPeerCloses(l) ==
    /\ cls = iDealLed
    /\ l \in connected
    /\ drops < MaxDrops
    /\ drops' = drops + 1
    /\ connected' = connected \ {l}
    /\ IF Connected /\ (l = _client \/ ~_expected_disconnect)
       THEN est' = 0 /\ cause' = "peer"
       ELSE UNCHANGED ghost
    /\ IF _expected_disconnect
       THEN /\ cb_log' = "debug"
            /\ UNCHANGED <<_client, procs>>
       ELSE /\ cb_log' = "warning"
            /\ _client' = Nil
            /\ \E b \in BgTasks : Spawn(b, "UNEXPECTED", Nil)
    /\ UNCHANGED <<NotOfLed, _connect_lock, _procedure_lock, _disconnect_reason, timer,
                   calls, faults>>

(***************************************************************************)
(* Specifications                                                          *)
(***************************************************************************)
\* the idle delay a config entry may carry (seconds); 0 turns the timer off
Delays == {0, 120}

SessionInitWith(classes, peripherals) ==
    /\ cls \in classes
    /\ \E d \in peripherals : device = d[1] /\ loaded = d[2]
    /\ _delay \in (IF cls = IDEALLEDInstance THEN Delays ELSE {DISCONNECT_DELAY})
    /\ _client = Nil
    /\ _connect_lock = <<>>
    /\ _procedure_lock = <<>>
    /\ _disconnect_timer = Nil
    /\ _expected_disconnect = FALSE
    /\ _disconnect_reason = None
    /\ _cached_services = NoCat
    /\ _read_uuid = Nil
    /\ _write_uuid = Nil
    /\ _write_colour_uuid = Nil
    /\ _is_on = "None"
    /\ _usingmic = FALSE
    /\ _effect = None
    /\ _effect_speed = 100
    /\ _brightness = 255
    /\ _rgb_color = <<255, 255, 255>>
    /\ _effect_colors = <<<<0, 255, 0>>, <<128, 255, 0>>, <<255, 255, 0>>, <<255, 0, 0>>,
                          <<255, 0, 255>>, <<0, 0, 255>>, <<128, 0, 255>>>>
    /\ connected = {}
    /\ scheduled = {}
    /\ pc = [p \in Procs |-> "idle"]
    /\ op = [p \in Procs |-> None]
    /\ arg = [p \in Procs |-> None]
    /\ stage = [p \in Procs |-> 0]
    /\ attempt = [p \in Procs |-> 0]
    /\ lclient = [p \in Procs |-> Nil]
    /\ lchar = [p \in Procs |-> Nil]
    /\ est = 0
    /\ cause = "init"
    /\ cb_log = None
    /\ calls = 0
    /\ faults = 0
    /\ drops = 0
    /\ wire = <<>>
    /\ entry = Facade
    /\ last = [op |-> None, arg |-> None, out |-> "none", err |-> None, att |-> 0]
    /\ packet = <<>>
    /\ ciphered = <<>>
    /\ cleared = <<>>
    /\ delivered = [at |-> None, reason |-> None, got |-> None]
    /\ received = [speed |-> _effect_speed, brightness |-> _brightness]

SessionInit(classes) == SessionInitWith(classes, FullDevice)

\* the calls the callers make in the session specifications
SessionCalls ==
    {<<"turn_on", None>>, <<"set_effect", [effect |-> EFFECT_01, brightness |-> 255]>>,
     <<"update", None>>}

\* every step of an IDEALLEDInstance session but the call of a command
InstanceSteps ==
    \/ \E t \in Tasks : Stop(t)
    \/ \E t \in Tasks : SleepDone(t)
    \/ \E t \in Tasks : LockGranted(t)
    \/ \E t \in Tasks, l \in LinkIds : \E cat \in Catalogues(l) : EstablishOk(t, cat)
    \/ \E t \in Tasks, err \in FaultClasses : EstablishFail(t, err)
    \/ \E t \in Tasks : NotifyOk(t)
    \/ \E t \in Tasks, err \in FaultClasses : NotifyFail(t, err)
    \/ \E t \in Tasks : WriteOk(t)
    \/ \E t \in Tasks, err \in FaultClasses : WriteFail(t, err)
    \/ \E h \in TimerIds, b \in BgTasks : TimerFires(h, b)
    \/ \E b \in BgTasks : TimedDisconnect(b)
    \/ \E p \in Procs : DisconnectGranted(p)
    \/ \E p \in Procs : StopNotifyOk(p)
    \/ \E p \in Procs, err \in FaultClasses : DisconnectFails(p, err)
    \/ \E p \in Procs : DisconnectOk(p)
    \/ \E l \in LinkIds : PeerCloses(l)

InstanceNext ==
    \/ \E t \in Tasks, c \in SessionCalls : Call(t, c[1], c[2])
    \/ InstanceSteps

InitInstance == SessionInit({IDEALLEDInstance}) /\ RetryInit

SpecInstance == InitInstance /\ [][InstanceNext]_vars

LedCalls == {"update", "execute", "connect"}

LedNext ==
    \/ \E t \in Tasks, o \in LedCalls : LedCall(t, o)
    \/ \E t \in Tasks : LedDisconnect(t)
    \/ \E t \in Tasks : LedSleepDone(t)
    \/ \E t \in Tasks : LedProcedureGranted(t)
    \/ \E t \in Tasks : LedLockGranted(t)
    \/ \E t \in Tasks : LedEstablishOk(t)
    \/ \E t \in Tasks, err \in FaultClasses : LedEstablishFail(t, err)
    \/ \E t \in Tasks : LedProcedureOk(t)
    \/ \E t \in Tasks, b \in BgTasks : LedProcedureError(t, b)
    \/ \E t \in Tasks, err \in FaultClasses : LedProcedureFails(t, err)
    \/ \E t \in Tasks : LedCancel(t)
    \/ \E h \in TimerIds, b \in BgTasks : LedTimerFires(h, b)
    \/ \E b \in BgTasks : LedBgRun(b)
    \/ \E p \in Procs : LedDisconnectGranted(p)
    \/ \E p \in Procs : LedDisconnectOk(p)
    \/ \E p \in Procs, err \in FaultClasses : LedDisconnectFails(p, err)
    \/ \E l \in LinkIds : LedPeerCloses(l)

InitLed == SessionInit({iDealLed}) /\ RetryInit

SpecLed == InitLed /\ [][LedNext]_vars

Init == SessionInit({IDEALLEDInstance, iDealLed}) /\ RetryInit

Next == InstanceNext \/ LedNext

Spec == Init /\ [][Next]_vars

FacadeNext ==
    \/ \E c \in FacadeCommands \cup {<<"update", None>>} : FacadeCall(c[1], c[2])
    \/ FacadeEnsureOk
    \/ FacadeEnsureFail
    \/ FacadeWriteOk
    \/ \E err \in FaultClasses, issued \in BOOLEAN : FacadeWriteFail(err, issued)
    \/ FacadeSleepDone

InitFacade == SessionInit({IDEALLEDInstance}) /\ _delay = 0 /\ RetryInit

SpecFacade == InitFacade /\ [][FacadeNext]_vars

CodecNext ==
    \/ \E data \in CodecPackets : CodecWrite(data)
    \/ CodecNotification

InitCodec == SessionInit({IDEALLEDInstance}) /\ _delay = 0 /\ RetryInit

SpecCodec == InitCodec /\ [][CodecNext]_vars

\* the peripherals of the resolver specification: the services are not loaded
\* when the client is handed over, the colour characteristic is missing, the
\* notify characteristic is missing
ResolverPeripherals ==
    {<<AllChars, {}>>, <<{"read", "write"}, {"read", "write"}>>,
     <<{"write", "colour"}, {"write", "colour"}>>}

\* connecting to a peripheral whose catalogue may lack characteristics; the
\* idle timer is off and nobody calls stop()
ResolverNext ==
    \/ \E t \in Tasks, c \in SessionCalls : Call(t, c[1], c[2])
    \/ \E t \in Tasks : SleepDone(t)
    \/ \E t \in Tasks : LockGranted(t)
    \/ \E t \in Tasks, l \in LinkIds : \E cat \in Catalogues(l) : EstablishOk(t, cat)
    \/ \E t \in Tasks, err \in FaultClasses : EstablishFail(t, err)
    \/ \E t \in Tasks : ServicesOk(t, device)
    \/ \E t \in Tasks, err \in FaultClasses : ServicesFail(t, err)
    \/ \E t \in Tasks : NotifyOk(t)
    \/ \E t \in Tasks, err \in FaultClasses : NotifyFail(t, err)
    \/ \E t \in Tasks, err \in {Bleak, Other} : NotifyUnresolved(t, err)
    \/ \E t \in Tasks : WriteOk(t)
    \/ \E t \in Tasks, err \in FaultClasses : WriteFail(t, err)
    \/ \E l \in LinkIds : PeerCloses(l)

InitResolver ==
    SessionInitWith({IDEALLEDInstance}, ResolverPeripherals) /\ _delay = 0 /\ RetryInit

SpecResolver == InitResolver /\ [][ResolverNext]_vars

InitRetry == RetryInit /\ SessionInit({IDEALLEDInstance}) /\ _delay = 0

SpecRetry == InitRetry /\ [][RetryNext]_vars

(***************************************************************************)
(* Claims about the sessions (checked under Spec, SpecInstance, SpecLed)   *)
(***************************************************************************)
\* p is inside _ensure_connected, past its first check
InEnsure(p) == pc[p] \in {"lock", "establish", "services", "notify"}

\* this step returns p from _ensure_connected without an error
EnsureReturns(p) ==
    /\ InEnsure(p)
    /\ ~(pc'[p] \in {"lock", "establish", "services", "notify", "sleep"})
    /\ faults' = faults

\* this step issues a write (IDEALLEDInstance) or starts a procedure (iDealLed)
\* on behalf of p
WriteIssued(p) ==
    /\ pc'[p] \in {"write", "procedure"}
    /\ <<pc[p], stage[p], attempt[p]>> # <<pc'[p], stage'[p], attempt'[p]>>

\* the idle timer is pending
TimerPending == _disconnect_timer # Nil /\ _disconnect_timer \in scheduled

\* C1: single-flight connect.  Counting from the moment the session was last
\* Disconnected, at most one establish_connection call is in flight and at
\* most one is made (est = 1) however many callers are inside
\* _ensure_connected; every caller that returns from _ensure_connected without
\* an error returns with exactly that one call made and the session Connected.
C1_SingleFlightConnect ==
    /\ [](est <= 1)
    /\ [](Cardinality({p \in Procs : pc[p] = "establish"}) <= 1)
    /\ [](Connected => est = 1)
    /\ [][\A p \in Tasks : EnsureReturns(p) => (Connected' /\ est' = 1)]_vars

\* C1 witness: two concurrent callers found the session Disconnected; the
\* one connection has been established by the first while the second waits
\* for the connect lock
C1_Witness ==
    /\ pc[1] = "notify"
    /\ pc[2] = "lock"
    /\ Connected
    /\ est = 1
    /\ cause = "init"

\* C2: the writes of two concurrent IDEALLEDInstance commands are never
\* interleaved: while one command has a write in flight no other command has
\* one, and no command issues a write between the first and the last write of
\* another command's set_effect.
C2_WritesNotInterleaved ==
    \A t, u \in Tasks :
       (t # u /\ pc[t] = "write" /\ op[t] # "update") => ~(pc[u] = "write" /\ op[u] # "update")

\* C3: at most one caller of iDealLed._execute is inside the procedure lock
\* (in _ensure_connected or in procedure.execute()), that caller is the head of
\* the lock's queue, and the lock is never left held by a caller that has
\* returned, raised, been cancelled or gone to its backoff sleep: everyone in
\* the queue is either running its procedure or waiting for its turn.
C3_OneProcedureInFlight ==
    cls = iDealLed =>
       /\ \A t, u \in Tasks :
             (t # u /\ op[t] \in Executed /\ op[u] \in Executed)
                => ~(pc[t] \in {"lock", "establish", "procedure"}
                     /\ pc[u] \in {"lock", "establish", "procedure"})
       /\ \A t \in Tasks :
             (op[t] \in Executed /\ pc[t] \in {"lock", "establish", "procedure"})
                => (_procedure_lock # <<>> /\ Head(_procedure_lock) = t)
       /\ \A i \in 1..Len(_procedure_lock) :
             /\ op[_procedure_lock[i]] \in Executed
             /\ pc[_procedure_lock[i]] \in
                   (IF i = 1 THEN {"plock", "lock", "establish", "procedure"} ELSE {"plock"})
       /\ \A i, j \in 1..Len(_procedure_lock) :
             _procedure_lock[i] = _procedure_lock[j] => i = j

\* C3 witness: a caller left _execute by a domain error (its forced disconnect
\* is scheduled) and the caller that was waiting now holds the lock
C3_Witness ==
    /\ cls = iDealLed
    /\ \E t \in Tasks, b \in BgTasks :
          /\ pc[t] = "plock"
          /\ Head(_procedure_lock) = t
          /\ op[b] = "ERROR"
          /\ pc[b] = "created"

\* C4: idle timer.  A call of a command, connect() or update() made while the
\* session is Connected and the idle timer is pending makes no
\* establish_connection call and leaves the session on the same client with a
\* timer pending; and a write or procedure issued after the session was closed
\* by the idle timer is issued with exactly one establish_connection call made
\* since that disconnect.
C4_IdleTimer ==
    /\ [][(/\ calls' = calls + 1
           /\ Connected
           /\ TimerPending
           /\ \A p \in Tasks : pc'[p] \in {"stop_notify", "disconnect", "dlock"} => pc'[p] = pc[p])
          => (/\ est' = est
              /\ \A p \in Tasks : pc'[p] \in {"lock", "establish"} => pc'[p] = pc[p]
              /\ _client' = _client
              /\ Connected'
              /\ TimerPending')]_vars
    /\ [][\A p \in Tasks : (WriteIssued(p) /\ cause' = "idle") => (est' = 1 /\ Connected')]_vars

\* C4 witness: the idle timer closed the session and the next command has
\* reconnected once and issued its first write, with a new timer pending
C4_Witness ==
    /\ cause = "idle"
    /\ est = 1
    /\ Connected
    /\ TimerPending
    /\ \E t \in Tasks : pc[t] = "write" /\ stage[t] = 1
    /\ faults = 0
    /\ drops = 0

\* C5: there is no reachable state in which the session has no live transport
\* (it is not Connected) while an idle-disconnect timer is still pending.
C5_NoTimerWithoutTransport ==
    ~Connected => scheduled = {}

\* C6: when the peer closes the stored client's link while the session is
\* Connected and no disconnect was requested, the callback takes the unexpected
\* (warning) path; and a write or procedure issued after the peer closed the
\* link is issued with exactly one establish_connection call made since.
C6_UnexpectedDisconnect ==
    /\ [][(/\ drops' = drops + 1
           /\ Connected
           /\ ~_expected_disconnect
           /\ ~(_client \in connected'))
          => (cb_log' = "warning" /\ est' = 0 /\ ~Connected')]_vars
    /\ [][\A p \in Tasks : (WriteIssued(p) /\ cause' = "peer") => (est' = 1 /\ Connected')]_vars

\* C6 witness: the peer closed the link, the warning path was taken, and the
\* next command has reconnected once and issued its first write
C6_Witness ==
    /\ cause = "peer"
    /\ cb_log = "warning"
    /\ drops = 1
    /\ est = 1
    /\ Connected
    /\ \E t \in Tasks : pc[t] \in {"write", "procedure"}
    /\ faults = 0

\* C7: when a disconnect run by the session (idle timer, stop(), disconnect())
\* brings the link down, the callback sees _expected_disconnect set: it takes
\* the expected branch and no further disconnect task is created; and
\* _expected_disconnect is never set while the session is Connected.
C7_ExpectedDisconnect ==
    /\ [][\A p \in Procs :
            (/\ pc[p] = "disconnect"
             /\ pc'[p] = "idle"
             /\ lclient[p] \in connected
             /\ ~(lclient[p] \in connected'))
            => (/\ _expected_disconnect
                /\ cb_log' = "debug"
                /\ \A b \in BgTasks : pc'[b] = "created" => pc[b] = "created")]_vars
    /\ [](Connected => ~_expected_disconnect)

\* C7 witness: the session was closed by its idle timer, the callback took the
\* expected branch, and nothing is left running
C7_Witness ==
    /\ cause = "idle"
    /\ cb_log = "debug"
    /\ drops = 0
    /\ faults = 0
    /\ _expected_disconnect
    /\ connected = {}
    /\ \A p \in Procs : pc[p] = "idle"

(***************************************************************************)
(* Claims about the retry wrapper (checked under SpecRetry)                *)
(***************************************************************************)
Failed(i) == rt_calls[i] # "ok"

Retryable(e) ==
    e \in {"BleakDBusError", "BleakError", "AttributeError", "EOFError",
           "BrokenPipeError", "TimeoutError"}

\* C8: the wrapper calls the wrapped operation at most 3 times; a call that
\* succeeds is the last one and the wrapper returns its result; when three
\* calls have failed with retryable errors the wrapper raises the error of the
\* third; and the wrapper never ends without a result of the operation or an
\* error (it never falls off the end of its loop).
C8_AtMostThreeAttempts ==
    /\ Len(rt_calls) <= 3
    /\ \A i \in 1..Len(rt_calls) :
          ~Failed(i) => /\ i = Len(rt_calls)
                        /\ rt_pc = "returned"
                        /\ rt_outcome = <<"result", i - 1>>
    /\ (Len(rt_calls) = 3 /\ \A i \in 1..3 : Retryable(rt_calls[i]))
          => (rt_pc = "raised" /\ rt_outcome = <<"error", rt_calls[3], 2>>)
    /\ rt_pc = "returned" => (rt_outcome[1] = "result" /\ rt_calls[Len(rt_calls)] = "ok")
    /\ rt_pc = "raised" => (rt_outcome[1] = "error" /\ rt_outcome[2] = rt_calls[Len(rt_calls)])
    /\ rt_outcome # <<"fell_through">>

\* C8 witness: three retryable failures, the last one raised
C8_Witness ==
    /\ rt_calls = <<"BleakError", "BleakDBusError", "TimeoutError">>
    /\ rt_pc = "raised"

\* C9: a BleakNotFoundError is raised at once: the failing call is the last
\* call of the invocation, whatever the attempt, the wrapper ends raising that
\* error, and no sleep follows it.
C9_NotFoundNotRetried ==
    \A i \in 1..Len(rt_calls) :
       rt_calls[i] = "BleakNotFoundError"
          => /\ i = Len(rt_calls)
             /\ rt_pc = "raised"
             /\ rt_outcome = <<"error", "BleakNotFoundError", i - 1>>
             /\ \A j \in 1..Len(rt_sleeps) : rt_sleeps[j][1] # i - 1

\* C9 witness: the device is not found on the second attempt, two remain unused
C9_Witness ==
    /\ rt_calls = <<"BleakError", "BleakNotFoundError">>
    /\ rt_pc = "raised"

\* C10: a sleep is made after a failed attempt exactly when the failure is a
\* BleakDBusError and the attempt is not the last (index below 2); every sleep
\* lasts 250 ms and there is one sleep per such failure.
C10_BackoffOnlyForDBus ==
    /\ \A i \in 1..Len(rt_calls) :
          (\E j \in 1..Len(rt_sleeps) : rt_sleeps[j][1] = i - 1)
             <=> (rt_calls[i] = "BleakDBusError" /\ i - 1 < 2)
    /\ \A j \in 1..Len(rt_sleeps) : rt_sleeps[j][2] = 250
    /\ \A j, k \in 1..Len(rt_sleeps) : rt_sleeps[j][1] = rt_sleeps[k][1] => j = k
    /\ rt_pc = "sleep" => rt_calls[Len(rt_calls)] = "BleakDBusError"

\* C10 witness: a busy failure slept on, a plain failure not, a final busy
\* failure raised without a sleep
C10_Witness ==
    /\ rt_calls = <<"BleakDBusError", "BleakError", "BleakDBusError">>
    /\ rt_sleeps = << <<0, 250>> >>
    /\ rt_pc = "raised"

(***************************************************************************)
(* Claims about the commands and their packets (checked under SpecFacade)  *)
(***************************************************************************)
\* an effect packet: the header 14, 'E', 'F', 'F'
IsEffectPacket(w) == SubSeq(w.data, 1, 4) = <<14, 69, 70, 70>>

\* command c has returned to its caller
Returned(c) == last.op = c /\ last.out = "returned"

\* C11: whatever the calls so far and whichever of the twelve effects is
\* selected, the effect-id byte of every effect packet written is at most 11,
\* and a command that selects Microphone writes only the microphone start
\* literal, never an effect packet.
C11_EffectIdAtMost11 ==
    /\ \A i \in DOMAIN wire : IsEffectPacket(wire[i]) => wire[i].data[5] <= 11
    /\ (last.op = "set_effect" /\ last.arg.effect = EFFECT_MICROPHONE)
          => \A i \in DOMAIN wire : wire[i] = Command(_startmiccommand)

\* set_effect("Effect 11") has returned after its three packets, each with id 11
C11_Witness ==
    /\ Returned("set_effect")
    /\ last.arg.effect = EFFECT_11
    /\ Len(wire) = 3
    /\ \A i \in DOMAIN wire : IsEffectPacket(wire[i]) /\ wire[i].data[5] = 11

\* a brightness packet: the header 6, 'L', 'I', 'G', 'H', 'T'
IsLightPacket(w) == SubSeq(w.data, 1, 6) = <<6, 76, 73, 71, 72, 84>>

\* the palette slot (0..6) the first triple of an effect packet carries: the
\* packets marked 3, 19 and 33 start at slots 0, 3 and 6
FirstSlot(w) == CASE w.data[7] = 3 -> 0 [] w.data[7] = 19 -> 3 [] OTHER -> 6

\* the bytes an effect packet carries for palette slot i, <<>> if it has none
SlotBytes(w, i) ==
    IF i \in FirstSlot(w)..(FirstSlot(w) + 2)
    THEN SubSeq(w.data, 8 + 3 * (i - FirstSlot(w)), 10 + 3 * (i - FirstSlot(w)))
    ELSE <<>>

\* colour c as the claims put it on the wire at pct percent: G, R, B, each
\* (channel * pct / 100) >> 1
OnWire(c, pct) ==
    <<((c[2] * pct) \div 100) \div 2, ((c[1] * pct) \div 100) \div 2,
      ((c[3] * pct) \div 100) \div 2>>

\* effect packet w carries `colors` scaled by pct percent
ScaledBy(w, colors, pct) ==
    \A i \in PaletteSlots : SlotBytes(w, i) # <<>> => SlotBytes(w, i) = OnWire(colors[i + 1], pct)

\* C12: the brightness percent that scales a packet is never below 3, for every
\* brightness 0..255: the palette bytes of every effect packet (set_effect,
\* also when set_effect_colour re-emits it) are the palette scaled by some
\* percent of at least 3, and the percent byte of every LIGHT packet is at
\* least 3.
C12_PercentAtLeast3 ==
    /\ \A i \in DOMAIN wire : IsLightPacket(wire[i]) => wire[i].data[7] >= 3
    /\ \A i \in DOMAIN wire :
          IsEffectPacket(wire[i])
             => \E pct \in 3..100 : ScaledBy(wire[i], _effect_colors, pct)

\* the last three writes are the effect sequence (markers 3, 19, 33) for
\* effect id `id`, carrying `colors` scaled by pct percent
EffectSequence(id, colors, pct) ==
    /\ Len(wire) >= 3
    /\ \A j \in 1..3 :
          LET w == wire[Len(wire) - 3 + j] IN
          /\ IsEffectPacket(w)
          /\ w.data[5] = id
          /\ w.data[7] = <<3, 19, 33>>[j]
          /\ ScaledBy(w, colors, pct)

\* C13: set_effect_colour(i, c), i in 0..6, called while an effect other than
\* Microphone is active and the device is on, has on return stored c in
\* palette slot i and written the three-packet effect sequence, in which the
\* bytes of slot i are c's (G, R, B at the stored brightness).
C13_EffectColourReemits ==
    (/\ Returned("set_effect_colour")
     /\ last.arg.index \in PaletteSlots
     /\ entry.effect \notin {None, EFFECT_MICROPHONE}
     /\ entry.is_on = "True")
    => /\ _effect_colors[last.arg.index + 1] = last.arg.colour
       /\ EffectSequence(EFFECT_MAP[entry.effect], _effect_colors,
                         (entry.brightness * 100) \div 255)
       /\ \E j \in 1..3 :
             SlotBytes(wire[Len(wire) - 3 + j], last.arg.index)
                = OnWire(last.arg.colour, (entry.brightness * 100) \div 255)

\* the colour of the last slot was set while an effect ran at full brightness
C13_Witness ==
    /\ Returned("set_effect_colour")
    /\ entry.effect = EFFECT_01
    /\ entry.is_on = "True"
    /\ last.arg = [index |-> 6, colour |-> <<1, 128, 255>>]
    /\ Len(wire) = 3
    /\ SubSeq(wire[3].data, 8, 10) = <<64, 0, 127>>

\* a direct-colour packet: the header 7, 'C', 'O', 'L', 'O'
IsColourPacket(w) == SubSeq(w.data, 1, 5) = <<7, 67, 79, 76, 79>>

\* C14: every packet written to the command-write characteristic is AES-ECB
\* encrypted under the fixed key, and the direct-colour packet of
\* set_rgb_color goes unencrypted to the colour-write characteristic, never
\* to the command-write characteristic.
C14_ChannelRouting ==
    \A i \in DOMAIN wire :
        /\ wire[i].char = "write" => wire[i].cipher = "AES-ECB"
        /\ IsColourPacket(wire[i]) => wire[i].char = "colour" /\ wire[i].cipher = None

\* the packets of the command other than the microphone stop literal that
\* set_rgb_color sends first when the microphone is in use
ColourWrites == SelectSeq(wire, LAMBDA w : w.data # _stopmiccommand)

\* the colour packet the claim describes: 7, the opcode tag, G, R, B scaled
\* by brightness * 100 / 255 (truncated) and halved, then zeros up to 16 bytes
ColourPacket(tag, c, brightness) ==
    <<7>> \o tag \o OnWire(c, (brightness * 100) \div 255) \o Zeros(12 - Len(tag))

\* C15 as stated: set_rgb_color(rgb, brightness) emits exactly one 16-byte
\* colour packet, 7 and the colour opcode tag, then G, R, B, each
\* (channel * percent / 100) >> 1, then zeros; and for ((255, 0, 0), 128) the
\* packet is [7, 'C', 'O', 'L', 0, 63, 0, 0, ...].
C15_AsStated ==
    (Returned("set_rgb_color") /\ "brightness" \in DOMAIN last.arg)
    => /\ Len(ColourWrites) = 1
       /\ \E tag \in {<<67, 79, 76>>, <<67, 79, 76, 79>>} :
             ColourWrites[1].data = ColourPacket(tag, last.arg.rgb, last.arg.brightness)
       /\ (last.arg.rgb = <<255, 0, 0>> /\ last.arg.brightness = 128)
             => ColourWrites[1].data = <<7, 67, 79, 76, 0, 63, 0>> \o Zeros(9)

\* C15, amended: the tag is 'C', 'O', 'L', 'O', so G, R, B are bytes 5..7 and
\* the packet for ((255, 0, 0), 128) is [7, 'C', 'O', 'L', 'O', 0, 63, 0, 0, ...];
\* every colour packet of the call is that packet, there is at least one, and
\* exactly one unless a transport error made the wrapper run the body again.
\* The packet built for a fresh instance is also compared over every
\* brightness 0..255 and every channel value 0..255.
C15_ColourPacket ==
    /\ (Returned("set_rgb_color") /\ "brightness" \in DOMAIN last.arg)
       => /\ Len(ColourWrites) >= 1
          /\ faults = 0 => Len(ColourWrites) = 1
          /\ \A i \in DOMAIN ColourWrites :
                /\ Len(ColourWrites[i].data) = 16
                /\ ColourWrites[i].data
                     = ColourPacket(<<67, 79, 76, 79>>, last.arg.rgb, last.arg.brightness)
          /\ (last.arg.rgb = <<255, 0, 0>> /\ last.arg.brightness = 128)
                => ColourWrites[1].data = <<7, 67, 79, 76, 79, 0, 63, 0>> \o Zeros(8)
    /\ last.op = None
       => \A x \in 0..255, b \in 0..255 :
             LET c == <<x, (x + 85) % 256, 255 - x>> IN
             set_rgb_color_write([rgb |-> c, brightness |-> b], 2, Facade).data
                = ColourPacket(<<67, 79, 76, 79>>, c, b)

\* set_rgb_color((255, 0, 0), 128) has returned after its one packet
C15_Witness ==
    /\ Returned("set_rgb_color")
    /\ last.arg = [rgb |-> <<255, 0, 0>>, brightness |-> 128]
    /\ wire = <<Command(<<7, 67, 79, 76, 79, 0, 63, 0>> \o Zeros(8))>>

\* a speed packet: the header 6, 'S', 'P', 'E', 'E', 'D'
IsSpeedPacket(w) == SubSeq(w.data, 1, 6) = <<6, 83, 80, 69, 69, 68>>

\* C16: set_speed(v) with v > 100 behaves as set_speed(100): the stored effect
\* speed and the speed byte of the SPEED packet are 100; for v in 0..100 they
\* are v.  (As for set_speed(100), nothing is written when the stored speed
\* already has that value.)
C16_SpeedClamped ==
    last.op = "set_speed"
    => LET v == IF last.arg > 100 THEN 100 ELSE last.arg IN
       /\ _effect_speed = v
       /\ \A i \in DOMAIN wire : IsSpeedPacket(wire[i]) /\ wire[i].data[7] = v
       /\ Returned("set_speed") => Len(wire) = (IF entry.speed = v THEN 0 ELSE 1)

\* set_speed(150) has returned, called with a stored speed of 50
C16_Witness ==
    /\ Returned("set_speed")
    /\ last.arg = 150
    /\ entry.speed = 50
    /\ _effect_speed = 100
    /\ wire = <<Command(<<6, 83, 80, 69, 69, 68, 100>> \o Zeros(9))>>

(***************************************************************************)
(* Claims about the cipher (checked under SpecCodec)                       *)
(***************************************************************************)
\* C17: for every 16-byte plaintext packet, decrypting, as the notification
\* handler does, the bytes the encryption of _write produced, with the same
\* fixed key in ECB mode, yields the original packet.
C17_RoundTrip ==
    cleared # <<>> => cleared = packet

\* the turn-on packet went through _write and came back through the handler
C17_Witness ==
    /\ packet = <<6, 76, 69, 68, 79, 78>> \o Zeros(10)
    /\ ciphered = <<142, 188, 112, 235, 13, 230, 153, 213,
                    235, 22, 56, 62, 2, 109, 42, 198>>
    /\ cleared = packet

\* C18: when one of the three endpoints is still missing after the cached
\* catalogue and the freshly fetched one, the session is not Connected and no
\* notify subscription or command packet is issued on the new connection
C18_MissingEndpointFails ==
    Nil \in {_read_uuid, _write_uuid, _write_colour_uuid}
        => /\ ~Connected
           /\ \A p \in Procs : pc[p] \notin {"notify", "write"}

\* C19: when a facade command ends by raising (the connect or the GATT write
\* raised), power, microphone flag, brightness, colour, effect, effect speed and
\* the seven palette colours are what they were when the command was called
C19_RaiseLeavesState ==
    (last.op # "update" /\ last.out = "raised") => Facade = entry

\* C20: a cancelled _execute gives its caller iDealLedError when the last
\* disconnect reason is None, Timeout when it is TIMEOUT and Disconnected
\* otherwise, wherever the cancellation arrived; never the raw CancelledError
C20_CancelTranslated ==
    delivered.got # None
        => delivered.got = (IF delivered.reason = None THEN iDealLedError
                            ELSE IF delivered.reason = "TIMEOUT" THEN Timeout
                            ELSE Disconnected)

\* C21: in the step in which an iDealLedError raised by the procedure leaves
\* _execute for the caller (the step that makes the ERROR disconnect), the
\* session is already disconnected: no connected client is stored, the
\* disconnect reason is ERROR and no idle timer is stored
C21_ErrorDisconnectsFirst ==
    [][\A t \in Tasks :
          (/\ pc[t] = "procedure"
           /\ pc'[t] = "idle"
           /\ \E b \in BgTasks : pc[b] = "idle" /\ pc'[b] = "created" /\ op'[b] = "ERROR")
              => /\ ~Connected'
                 /\ _disconnect_reason' = "ERROR"
                 /\ _disconnect_timer' = Nil]_vars

\* C22: in the step that completes an update() call the session is left with
\* no live transport, and of the DeviceState fields only the power /
\* availability field may have changed
C22_UpdateLeavesNoLink ==
    [][\A t \in Tasks :
          (op[t] = "update" /\ pc[t] # "idle" /\ pc'[t] = "idle")
              => /\ ~Connected'
                 /\ [Facade EXCEPT !.is_on = "None"]' = [Facade EXCEPT !.is_on = "None"]]_vars

\* C23: at most one transport link is up, and a link that is up is the stored
\* client, or the one a process is on its way to store (suspended in
\* get_services) or to close (suspended in stop_notify or disconnect)
C23_OneLiveHandle ==
    /\ Cardinality(connected) <= 1
    /\ \A l \in connected :
          \/ l = _client
          \/ \E p \in Procs :
                lclient[p] = l /\ pc[p] \in {"services", "stop_notify", "disconnect"}

\* C24: set_effect_colour with an index outside 0..6 ends by raising, leaves
\* the seven palette entries as they were and writes no packet
C24_IndexOutOfRange ==
    (/\ last.op = "set_effect_colour"
     /\ last.arg.index \notin PaletteSlots
     /\ last.out # "running")
        => /\ last.out = "raised"
           /\ _effect_colors = entry.colors
           /\ wire = <<>>

\* C25: while the session is Connected, every endpoint handle it holds, and
\* the handle of every notify subscription or write under way on the stored
\* client, comes from the catalogue of that client: the one discovered on its
\* link or the cached one it was created with
C25_HandlesOfThisConnection ==
    Connected
        => /\ ({_read_uuid, _write_uuid, _write_colour_uuid} \ {Nil})
                 \subseteq {_client, _cached_services.of}
           /\ \A p \in Procs :
                 (pc[p] \in {"notify", "write"} /\ lclient[p] = _client)
                     => lchar[p] \in {_client, _cached_services.of}

\* C26: in the step in which establish_connection fails for process t, no
\* client is stored and no link comes up, the session is not Connected, the
\* idle timer is as it was, the error leaves _ensure_connected (the operation
\* of t ends, or its retry wrapper sleeps or starts the next attempt), and the
\* connect lock is released: it goes to the next waiter, and t is in its queue
\* again only as a new attempt
C26_EstablishFailure ==
    [][\A t \in Tasks :
          (/\ pc[t] = "establish"
           /\ faults' = faults + 1
           /\ (pc'[t] # "establish" \/ attempt'[t] # attempt[t]))
              => /\ _client' = _client
                 /\ connected' = connected
                 /\ ~Connected'
                 /\ scheduled' = scheduled
                 /\ _disconnect_timer' = _disconnect_timer
                 /\ pc'[t] \in {"idle", "sleep", "lock", "establish"}
                 /\ (_connect_lock # <<t>> => Head(_connect_lock') = _connect_lock[2])
                 /\ (pc'[t] \in {"idle", "sleep"}
                        => \A i \in DOMAIN _connect_lock' : _connect_lock'[i] # t)
                 /\ (pc'[t] = "establish" => _connect_lock' = <<t>>)]_vars

\* the only call made so far failed in establish_connection and has ended:
\* nothing is connected or stored, no timer runs and the connect lock is free
C26_Witness ==
    /\ calls = 1
    /\ faults = 1
    /\ \A p \in Procs : pc[p] = "idle"
    /\ _client = Nil
    /\ connected = {}
    /\ scheduled = {}
    /\ _connect_lock = <<>>

\* the facade commands
FacadeOps ==
    {"turn_on", "turn_off", "set_brightness", "set_rgb_color", "set_effect",
     "set_effect_colour", "set_speed"}

\* C27: a transient transport failure of a GATT write reaches the caller of
\* a facade command, set_speed and set_brightness included, only from the
\* third attempt
C27_WritesRetried ==
    (/\ last.op \in FacadeOps
     /\ last.out = "raised"
     /\ last.err \in {DBus, Bleak})
        => last.att = DEFAULT_ATTEMPTS - 1

\* C28: set_effect for one of the effects 1..11 has on return written, as its
\* last three packets (its only three when no write failed), 16-byte packets
\* 14,'E','F','F',id,7 with markers 3, 19 and 33 in this order, carrying
\* palette slots 0-2, 3-5 and 6 as (G, R, B), each byte
\* (channel * percent / 100) >> 1 and so in 0..127, with six zero bytes after
\* slot 6
C28_EffectSequence ==
    /\ (Returned("set_effect") /\ last.arg.effect \in EFFECT_LIST \ {EFFECT_MICROPHONE})
          => /\ EffectSequence(EFFECT_MAP[last.arg.effect], _effect_colors,
                               (last.arg.brightness * 100) \div 255)
             /\ faults = 0 => Len(wire) = 3
             /\ \A j \in 1..3 :
                   LET w == wire[Len(wire) - 3 + j] IN
                   /\ w.char = "write"
                   /\ Len(w.data) = 16
                   /\ w.data[6] = 7
                   /\ \A i \in 8..16 : w.data[i] \in 0..127
             /\ SubSeq(wire[Len(wire)].data, 11, 16) = <<0, 0, 0, 0, 0, 0>>
    /\ last.op = None
          => \A c \in 0..255, b \in 0..255 :
                /\ Grb(<<c, 0, 0>>, brightness_percent(b))[2]
                      = ((c * ((b * 100) \div 255)) \div 100) \div 2
                /\ Grb(<<0, c, 0>>, brightness_percent(b))[1] \in 0..127

\* set_effect("Effect 02", 128) has returned after three packets, the first
\* carrying the initial palette's slots 0-2 at 50 percent
C28_Witness ==
    /\ Returned("set_effect")
    /\ last.arg = [effect |-> "Effect 02", brightness |-> 128]
    /\ Len(wire) = 3
    /\ wire[1].data = <<14, 69, 70, 70, 2, 7, 3, 63, 0, 0, 63, 32, 0, 63, 63, 0>>
    /\ wire[3].data[7] = 33

\* the marker byte of an effect packet
Marker(w) == w.data[7]

RoundPercent(value) == (2 * value * 100 + 255) \div 510

\* C30: the percent byte of the LIGHT packet set_brightness(value) sends is
\* max(3, round(value * 100 / 255)), a value above 255 counting as 255
C30_RoundedPercent ==
    last.op = "set_brightness"
        => \A i \in DOMAIN wire :
              IsLightPacket(wire[i])
                 => wire[i].data[7]
                       = Max(3, RoundPercent(IF last.arg > 255 THEN 255 ELSE last.arg))

(***************************************************************************)
(* Claims about the idle timer and the disconnect tasks                    *)
(***************************************************************************)
\* C31: in every reachable state at most one idle-disconnect timer is pending,
\* and a pending timer is the one the stored handle refers to: resetting the
\* timer cancels the previously scheduled one before scheduling the next.
C31_OneTimerPending ==
    /\ Cardinality(scheduled) <= 1
    /\ scheduled \subseteq {_disconnect_timer} \ {Nil}

\* C31 witness: a command connected (first reset), its first write returned
\* and its second write was issued on the same client after a second reset,
\* with the timer pending and nothing having failed
C31_Witness ==
    /\ Connected
    /\ TimerPending
    /\ \E t \in Tasks : pc[t] = "write" /\ stage[t] = 2 /\ lclient[t] = _client
    /\ \A b \in BgTasks : pc[b] = "idle"
    /\ faults = 0
    /\ drops = 0

\* this step is an idle disconnect (the task the expired timer created) getting
\* past the connect lock with the session Connected: it clears the handle and
\* goes on to close the transport
IdleDisconnectCloses(p) ==
    /\ op[p] \in {"timed", "TIMEOUT"}
    /\ pc[p] \in {"created", "dlock"}
    /\ pc'[p] \in {"stop_notify", "disconnect"}

\* C32: once _ensure_connected has reset the idle timer, no idle disconnect
\* closes the link before that timer has expired, even when the task of the
\* previous timer was still pending at the reset: an idle disconnect clears the
\* handle and closes the transport only when no timer is pending.  (A write in
\* flight was issued after such a reset, so while its timer is pending no idle
\* disconnect closes the transport under it.)
C32_IdleDisconnectWaits ==
    [][\A p \in Procs : IdleDisconnectCloses(p) => ~TimerPending]_vars

\* this step is the disconnect task p, created by the unexpected-disconnect
\* callback or by a domain error, getting past the connect lock with the
\* session Connected: it clears the handle and closes the stored client
ForcedDisconnectCloses(p) ==
    /\ cls = iDealLed
    /\ op[p] \in {"UNEXPECTED", "ERROR"}
    /\ pc[p] \in {"created", "dlock"}
    /\ pc'[p] = "disconnect"

\* C33: in iDealLed a disconnect task scheduled by the unexpected-disconnect
\* callback or by a domain error closes only the connection that was current
\* when it was scheduled (none, for the callback, which has cleared the
\* handle): the client it closes, and then records its reason against, is never
\* one stored by a later _ensure_connected.
C33_TaskClosesItsOwnLink ==
    [][\A p \in BgTasks : ForcedDisconnectCloses(p) => _client = lclient[p]]_vars

(***************************************************************************)
(* Liveness: the event loop runs what is ready.  A step of EventLoopStep   *)
(* is a timer callback, a task resuming with a lock it was handed, a       *)
(* backoff sleep ending, a transport call returning, or a transport call    *)
(* raising because its link is down; calls made by the callers, other      *)
(* transport errors and the peer closing a link are not forced.            *)
(***************************************************************************)
\* establish_connection raises because the adapter has no connection slot
\* left (every link identifier is in use)
EstablishNoSlot(t) ==
    /\ cls = IDEALLEDInstance
    /\ pc[t] = "establish"
    /\ LinkIds \ LinksInUse = {}
    /\ Raise(t, Bleak, Tail(_connect_lock), 0)
    /\ UNCHANGED <<rvars, obs, cls, env, _delay, _client, _procedure_lock, _disconnect_reason, endpoints,
                   connected, cause, cb_log>>

\* client.start_notify raises because the link has gone down
NotifyLost(t) ==
    /\ cls = IDEALLEDInstance
    /\ pc[t] = "notify"
    /\ lchar[t] # Nil
    /\ lclient[t] \notin connected
    /\ Raise(t, Bleak, Tail(_connect_lock), est)
    /\ UNCHANGED <<rvars, obs, cls, env, _delay, _client, _procedure_lock, _disconnect_reason, endpoints,
                   connected, cause, cb_log>>

\* write_gatt_char raises because the link has gone down or the handle was
\* cleared before the call
WriteLost(t) ==
    /\ cls = IDEALLEDInstance
    /\ pc[t] = "write"
    /\ (lclient[t] \notin connected \/ lchar[t] = Nil)
    /\ Raise(t, Bleak, _connect_lock, est)
    /\ UNCHANGED <<rvars, obs, cls, env, _delay, _client, _procedure_lock, _disconnect_reason, endpoints,
                   connected, cause, cb_log>>

\* client.stop_notify raises because the link has gone down: the lock is
\* released and the exception leaves _execute_disconnect
StopNotifyLost(p) ==
    /\ cls = IDEALLEDInstance
    /\ pc[p] = "stop_notify"
    /\ (lclient[p] \notin connected \/ lchar[p] = Nil)
    /\ _connect_lock' = Tail(_connect_lock)
    /\ Finish(p)
    /\ UNCHANGED <<rvars, obs, cls, env, _delay, _client, _procedure_lock, _disconnect_reason,
                   facade, endpoints, timer, connected, ghost, cb_log>>

\* a transport call that cannot be served raises (an IDEALLEDInstance session;
\* an iDealLed session makes no transport call that the model lets wait)
LinkLost ==
    \/ \E t \in Tasks : EstablishNoSlot(t)
    \/ \E t \in Tasks : NotifyLost(t)
    \/ \E t \in Tasks : WriteLost(t)
    \/ \E p \in Procs : StopNotifyLost(p)

EventLoopStep ==
    \/ LinkLost
    \/ \E t \in Tasks : SleepDone(t)
    \/ \E t \in Tasks : LockGranted(t)
    \/ \E t \in Tasks, l \in LinkIds : \E cat \in Catalogues(l) : EstablishOk(t, cat)
    \/ \E t \in Tasks : NotifyOk(t)
    \/ \E t \in Tasks : WriteOk(t)
    \/ \E h \in TimerIds, b \in BgTasks : TimerFires(h, b)
    \/ \E b \in BgTasks : TimedDisconnect(b)
    \/ \E p \in Procs : DisconnectGranted(p)
    \/ \E p \in Procs : StopNotifyOk(p)
    \/ \E p \in Procs : DisconnectOk(p)
    \/ \E t \in Tasks : LedSleepDone(t)
    \/ \E t \in Tasks : LedProcedureGranted(t)
    \/ \E t \in Tasks : LedLockGranted(t)
    \/ \E t \in Tasks : LedEstablishOk(t)
    \/ \E t \in Tasks : LedProcedureOk(t)
    \/ \E h \in TimerIds, b \in BgTasks : LedTimerFires(h, b)
    \/ \E b \in BgTasks : LedBgRun(b)
    \/ \E p \in Procs : LedDisconnectGranted(p)
    \/ \E p \in Procs : LedDisconnectOk(p)

\* every step of EventLoopStep moves a process on: it changes where the
\* process waits, the point its body resumes at or the attempt it is in
position == <<pc, stage, attempt, lclient>>

\* the calls of the fair specification: the commands without an argument
LiveCalls == {<<"turn_on", None>>, <<"update", None>>}

LiveNext ==
    \/ \E t \in Tasks, c \in LiveCalls : Call(t, c[1], c[2])
    \/ InstanceSteps
    \/ LedNext
    \/ LinkLost

SpecLive == Init /\ [][LiveNext]_vars /\ WF_position(EventLoopStep)

\* C34: with a non-zero idle delay and the event loop running, once no
\* further call is made the session ends up Disconnected for good: the
\* handle is cleared and no transport is left connected.
C34_IdleDisconnects ==
    (_delay # 0) => <>[](_client = Nil /\ connected = {})

\* C35: no operation blocks forever.  With the event loop running and every
\* transport call returning or raising, every operation and every disconnect
\* task that has started gets back to its caller (returns or raises), and the
\* connect lock and the procedure lock are free again after every use.
C35_NothingBlocksForever ==
    /\ \A p \in Procs : (pc[p] # "idle") ~> (pc[p] = "idle")
    /\ (_connect_lock # <<>>) ~> (_connect_lock = <<>>)
    /\ (_procedure_lock # <<>>) ~> (_procedure_lock = <<>>)

\* C35 witness: two calls were made, a transport error was raised and the
\* peer closed a link on the way, and every operation is over with both locks
\* free
C35_Witness ==
    /\ calls = MaxCalls
    /\ faults = 1
    /\ drops = 1
    /\ \A p \in Procs : pc[p] = "idle"
    /\ _connect_lock = <<>>
    /\ _procedure_lock = <<>>

(***************************************************************************)
(* Claims about the facade's state (checked under SpecFacade)              *)
(***************************************************************************)
\* the literal d is among the packets the command under way has written
Wrote(d) == \E i \in DOMAIN wire : wire[i].data = d

\* C36: whenever no command is running, the microphone flag is set exactly
\* when the active effect is Microphone; and turn_on writes the MIC start
\* literal, turn_off the MIC stop literal, only when it found Microphone as
\* the active effect.
C36_MicFlagFollowsEffect ==
    /\ pc[Caller] = "idle" => (_usingmic <=> _effect = EFFECT_MICROPHONE)
    /\ (last.op = "turn_on" /\ Wrote(_startmiccommand)) => entry.effect = EFFECT_MICROPHONE
    /\ (last.op = "turn_off" /\ Wrote(_stopmiccommand)) => entry.effect = EFFECT_MICROPHONE

\* C37: set_rgb_color called while the microphone mode is active writes the
\* MIC stop literal before the colour packet, also when the MIC stop write of
\* the first attempt failed and the wrapper called the method again: no colour
\* packet of the command is written without a MIC stop written before it.
C37_MicStopBeforeColour ==
    (last.op = "set_rgb_color" /\ entry.usingmic)
        => \A i \in DOMAIN wire :
              IsColourPacket(wire[i])
                 => \E j \in 1..(i - 1) : wire[j].data = _stopmiccommand

\* this step is a call of set_speed or set_brightness with the value v (after
\* clamping)
LevelCalled(o, v) ==
    /\ calls' = calls + 1
    /\ last'.op = o
    /\ v = (IF o = "set_speed" THEN Min(last'.arg, 100) ELSE Min(last'.arg, 255))

\* C38: set_speed and set_brightness skip the write only when the device has
\* already received the value: a call whose clamped value differs from the
\* value of the last packet of that kind delivered to the device goes on to
\* write a packet, also when an earlier call with the same value failed.
C38_SkipOnlyWhenReceived ==
    [][/\ \A v \in 0..100 :
             (LevelCalled("set_speed", v) /\ v # received.speed) => pc'[Caller] = "write"
       /\ \A v \in 0..255 :
             (LevelCalled("set_brightness", v) /\ v # received.brightness)
                => pc'[Caller] = "write"]_vars

\* C39: is_on reflects the last successful power command.  An update() whose
\* _ensure_connected returns leaves a False set by turn_off as it is, and
\* is_on becomes None only in an update() whose _ensure_connected raised.
C39_UpdateKeepsPower ==
    [][/\ (pc[Caller] = "ensure" /\ faults' = faults /\ _is_on = "False") => _is_on' = "False"
       /\ (_is_on # "None" /\ _is_on' = "None")
             => (pc[Caller] = "ensure" /\ faults' = faults + 1)]_vars

====
